---- MODULE Spec2Model ----
(***************************************************************************)
(* Interactive element resolver and prober of smart-bug-finder.            *)
(*                                                                         *)
(*   server/utils/elementFinder.js          findElementWithMultipleStrategies *)
(*   server/controllers/analyzeUrlController.js   testInteractiveElements  *)
(*                                                                         *)
(* Strings are sequences of one-character strings.  A live page is a       *)
(* sequence of elements in document order; an element handle is a position *)
(* in that sequence, NoElement (0) stands for JavaScript null.             *)
(***************************************************************************)
EXTENDS Integers, Sequences, FiniteSets, TLC

(***************************************************************************)
(* Bounds of the model.                                                    *)
(***************************************************************************)
MaxIdLen == 2
MaxElems == 2
MaxFaults == 1
MaxProbes == 2
MaxHandlerElems == 1

(***************************************************************************)
(* Program constants.                                                      *)
(***************************************************************************)
TextLimit == 200
SelectorTextLimit == 50
LastStrategy == 8

NoElement == 0
Absent == <<>>

(***************************************************************************)
(* String helpers (String.prototype.trim, split, substring, includes).     *)
(***************************************************************************)
substring(s, n) == SubSeq(s, 1, IF Len(s) < n THEN Len(s) ELSE n)

RECURSIVE TrimLeft(_)
TrimLeft(s) == IF s # <<>> /\ Head(s) = " " THEN TrimLeft(Tail(s)) ELSE s

RECURSIVE TrimRight(_)
TrimRight(s) ==
  IF s # <<>> /\ s[Len(s)] = " " THEN TrimRight(SubSeq(s, 1, Len(s) - 1)) ELSE s

trim(s) == TrimRight(TrimLeft(s))

RECURSIVE SplitWs(_, _)
SplitWs(s, cur) ==
  IF s = <<>> THEN (IF cur = <<>> THEN <<>> ELSE <<cur>>)
  ELSE IF Head(s) = " "
       THEN (IF cur = <<>> THEN <<>> ELSE <<cur>>) \o SplitWs(Tail(s), <<>>)
       ELSE SplitWs(Tail(s), Append(cur, Head(s)))

\* elementInfo.class.split(/\s+/).filter(c => c.length > 0)
classes(cls) == SplitWs(cls, <<>>)

Contains(hay, needle) ==
  \E i \in 0..(Len(hay) - Len(needle)) : SubSeq(hay, i + 1, i + Len(needle)) = needle

(***************************************************************************)
(* escapeCSSSelector: str.replace(/[#.]/g, '\\$&')                          *)
(***************************************************************************)
RECURSIVE escapeCSSSelector(_)
escapeCSSSelector(str) ==
  IF str = <<>> THEN <<>>
  ELSE (IF Head(str) \in {"#", "."} THEN <<"\\", Head(str)>> ELSE <<Head(str)>>)
       \o escapeCSSSelector(Tail(str))

\* placeholder.replace(/"/g, '\\"')
RECURSIVE escapeQuotes(_)
escapeQuotes(str) ==
  IF str = <<>> THEN <<>>
  ELSE (IF Head(str) = "\"" THEN <<"\\", "\"">> ELSE <<Head(str)>>)
       \o escapeQuotes(Tail(str))

(***************************************************************************)
(* The selector engine behind page.$: how it reads the text the finder     *)
(* interpolates.  An identifier is made of identifier characters and of    *)
(* backslash escapes; any other unescaped character ends the identifier,   *)
(* so the text is no longer the plain selector the finder meant (':'       *)
(* starts a pseudo-class and the query is rejected as a syntax error).     *)
(***************************************************************************)
IdentChars == {"a", "b", "c", "l", "n", "p", "t", "v", "x", "z"}

RECURSIVE CssIdent(_)
CssIdent(s) ==
  IF s = <<>> THEN [ok |-> TRUE, name |-> <<>>]
  ELSE IF Head(s) = "\\"
       THEN IF Len(s) < 2 THEN [ok |-> FALSE, name |-> <<>>]
            ELSE LET r == CssIdent(SubSeq(s, 3, Len(s)))
                 IN  [ok |-> r.ok, name |-> <<s[2]>> \o r.name]
       ELSE IF Head(s) \in IdentChars
            THEN LET r == CssIdent(Tail(s))
                 IN  [ok |-> r.ok, name |-> <<Head(s)>> \o r.name]
            ELSE [ok |-> FALSE, name |-> <<>>]

\* The content of a double-quoted CSS string: a bare quote ends it early.
RECURSIVE CssString(_)
CssString(s) ==
  IF s = <<>> THEN [ok |-> TRUE, name |-> <<>>]
  ELSE IF Head(s) = "\\"
       THEN IF Len(s) < 2 THEN [ok |-> FALSE, name |-> <<>>]
            ELSE LET r == CssString(SubSeq(s, 3, Len(s)))
                 IN  [ok |-> r.ok, name |-> <<s[2]>> \o r.name]
       ELSE IF Head(s) = "\""
            THEN [ok |-> FALSE, name |-> <<>>]
            ELSE LET r == CssString(Tail(s))
                 IN  [ok |-> r.ok, name |-> <<Head(s)>> \o r.name]

(***************************************************************************)
(* Elements of the live page.                                              *)
(*   tag, type      element name and, for <input>, its type                *)
(*   id, name, text, placeholder, class, for   attribute values (Absent    *)
(*                  when the attribute is missing); text is the rendered   *)
(*                  text (the value of an input button)                    *)
(*   data           the <<attribute, value>> pairs of its data-* attributes *)
(*   options        for a <select>, the values of its options              *)
(*   key, parent    key of the element and key of the <label> containing   *)
(*                  it (0 when it is not inside a label)                   *)
(*   cond           rendering condition, see isVisible and the like        *)
(***************************************************************************)
Elem(tag, type, key) ==
  [tag |-> tag, type |-> type, key |-> key, parent |-> 0, cond |-> "ok",
   id |-> Absent, name |-> Absent, text |-> Absent, placeholder |-> Absent,
   class |-> Absent, for |-> Absent, data |-> <<>>, options |-> <<>>]

\* The kind filters the finder writes into its selectors.
\* button, input[type="button"], input[type="submit"], input[type="reset"]
IsButton(el) ==
  \/ el.tag = "button"
  \/ el.tag = "input" /\ el.type \in {"button", "submit", "reset"}

\* input:not([type="checkbox"]):not([type="radio"]):not([type="button"])
\*      :not([type="submit"]):not([type="reset"])
IsPlainInput(el) ==
  el.tag = "input" /\ el.type \notin {"checkbox", "radio", "button", "submit", "reset"}

\* input:not([type="checkbox"]):not([type="radio"])
IsNonToggleInput(el) == el.tag = "input" /\ el.type \notin {"checkbox", "radio"}

IsSelect(el) == el.tag = "select"

IsCheckbox(el) == el.tag = "input" /\ el.type = "checkbox"

\* The filter of strategies 2 and 8.
StrictKind(el, elementType) ==
  CASE elementType = "button" -> IsButton(el)
    [] elementType = "input" -> IsPlainInput(el)
    [] elementType = "select" -> IsSelect(el)
    [] elementType = "checkbox" -> IsCheckbox(el)

\* The filter of strategies 5 and 6.
LooseKind(el, elementType) ==
  CASE elementType = "button" -> IsButton(el)
    [] elementType = "input" -> IsNonToggleInput(el)
    [] elementType = "select" -> IsSelect(el)
    [] elementType = "checkbox" -> IsCheckbox(el)

\* page.$ and locator.first(): the first element in document order.
FirstMatch(pg, P(_)) ==
  IF \E i \in 1..Len(pg) : P(pg[i])
  THEN CHOOSE i \in 1..Len(pg) : P(pg[i]) /\ \A j \in 1..(i - 1) : ~P(pg[j])
  ELSE NoElement

\* page.$(`#${...}`): the text after '#' read as one identifier.
QueryId(pg, body) ==
  LET p == CssIdent(body)
  IN  IF ~p.ok \/ p.name = <<>> THEN NoElement
      ELSE FirstMatch(pg, LAMBDA el : el.id = p.name)

\* textContent() of an element handle: an <input> has no text content.
textContent(el) == IF el.tag = "input" THEN <<>> ELSE el.text

\* page.$(`...[attr="${value}"]`) with a kind filter: the quoted text is read
\* as a CSS string.
QueryAttr(pg, attr, quoted, Kind(_)) ==
  LET p == CssString(quoted)
  IN  IF ~p.ok THEN NoElement
      ELSE FirstMatch(pg, LAMBDA el : Kind(el) /\ el[attr] # Absent /\ el[attr] = p.name)

\* page.$(`...[${key}="${value}"]`) with a kind filter.
QueryData(pg, key, quoted, Kind(_)) ==
  LET p == CssString(quoted)
  IN  IF ~p.ok THEN NoElement
      ELSE FirstMatch(pg, LAMBDA el :
             Kind(el) /\ \E i \in 1..Len(el.data) : el.data[i] = <<key, p.name>>)

\* page.$(`....${class}`) with a kind filter.
QueryClass(pg, body, Kind(_)) ==
  LET p == CssIdent(body)
  IN  IF ~p.ok \/ p.name = <<>> THEN NoElement
      ELSE FirstMatch(pg, LAMBDA el :
             Kind(el) /\ \E i \in 1..Len(classes(el.class)) : classes(el.class)[i] = p.name)

\* page.getByText(text, { exact: false }).first().elementHandle()
GetByText(pg, text) ==
  FirstMatch(pg, LAMBDA el : el.text # Absent /\ Contains(el.text, text))

\* page.getByRole('button', { name: text, exact: false }).first().elementHandle()
GetByRole(pg, text) ==
  FirstMatch(pg, LAMBDA el : IsButton(el) /\ el.text # Absent /\ Contains(el.text, text))

\* labelElement.$('input'): the first <input> inside the label.
InputInside(pg, label) ==
  FirstMatch(pg, LAMBDA el : el.tag = "input" /\ el.parent = label.key)

(***************************************************************************)
(* findElementWithMultipleStrategies, one operator per strategy.  Each     *)
(* takes the page, the descriptor, the element type and the fault of its   *)
(* lookups:                                                                *)
(*   "none"      every lookup of the strategy answers                      *)
(*   "reject"    the promise of the lookup rejects (.catch(() => null))    *)
(*   "throw"     building the lookup throws (the catch block); strategy 3  *)
(*               then runs its role lookup                                 *)
(*   "throwAll"  as "throw", and the role lookup of strategy 3 fails too   *)
(* and returns {element, selector}; Miss when the strategy returns nothing *)
(* and the finder goes on to the next one.                                 *)
(***************************************************************************)
NullSelector == <<>>
Miss == [element |-> NoElement, selector |-> NullSelector]
\* Hit returning usedSelector before it is assigned.
HitStaleSelector(el, sel) == [element |-> el, selector |-> NullSelector]

Hit(el, sel) == [element |-> el, selector |-> sel]

\* Strategy 1: Try ID selector
Strategy1(pg, elementInfo, elementType, f) ==
  IF elementInfo.id = Absent THEN Miss
  ELSE LET element == IF f # "none" THEN NoElement
                      ELSE QueryId(pg, escapeCSSSelector(elementInfo.id))
       IN  IF element # NoElement
           THEN Hit(element, <<"#">> \o elementInfo.id)
           ELSE Miss

\* Strategy 2: Try name attribute
Strategy2(pg, elementInfo, elementType, f) ==
  IF elementInfo.name = Absent THEN Miss
  ELSE LET element == IF f # "none" THEN NoElement
                      ELSE QueryAttr(pg, "name", elementInfo.name,
                                     LAMBDA el : StrictKind(el, elementType))
       IN  IF element # NoElement
           THEN Hit(element, <<"[name=\"">> \o elementInfo.name \o <<"\"]">>)
           ELSE Miss

\* Strategy 3: Try text content matching (for buttons)
Strategy3(pg, elementInfo, elementType, f) ==
  IF ~(elementType = "button" /\ elementInfo.text # Absent) THEN Miss
  ELSE LET text == trim(elementInfo.text)
       IN  IF ~(text # <<>> /\ Len(text) < TextLimit) THEN Miss
           ELSE IF f \in {"throw", "throwAll"}
                THEN LET element == IF f = "throwAll" THEN NoElement
                                    ELSE GetByRole(pg, text)
                     IN  IF element # NoElement
                         THEN Hit(element, <<"role=button, name=\"">>
                                           \o substring(text, SelectorTextLimit) \o <<"\"">>)
                         ELSE Miss
                ELSE LET element == IF f = "reject" THEN NoElement
                                    ELSE GetByText(pg, text)
                     IN  IF element # NoElement
                         THEN Hit(element, <<"text: \"">>
                                           \o substring(text, SelectorTextLimit) \o <<"\"">>)
                         ELSE Miss

\* Strategy 4: Try placeholder for inputs
Strategy4(pg, elementInfo, elementType, f) ==
  IF ~(elementType = "input" /\ elementInfo.placeholder # Absent) THEN Miss
  ELSE LET element == IF f # "none" THEN NoElement
                      ELSE QueryAttr(pg, "placeholder", escapeQuotes(elementInfo.placeholder),
                                     IsNonToggleInput)
       IN  IF element # NoElement
           THEN Hit(element, <<"[placeholder=\"">>
                             \o substring(elementInfo.placeholder, SelectorTextLimit)
                             \o <<"\"]">>)
           ELSE Miss

\* Strategy 5: Try data attributes, entry by entry
RECURSIVE DataEntries(_, _, _, _)
DataEntries(pg, entries, elementType, f) ==
  IF entries = <<>> THEN Miss
  ELSE LET key == Head(entries)[1]
           value == Head(entries)[2]
           element == IF f # "none" THEN NoElement
                      ELSE QueryData(pg, key, escapeQuotes(value),
                                     LAMBDA el : LooseKind(el, elementType))
       IN  IF element # NoElement
           THEN Hit(element, <<"[", key, "=\"">>
                             \o substring(value, SelectorTextLimit) \o <<"\"]">>)
           ELSE DataEntries(pg, Tail(entries), elementType, f)

Strategy5(pg, elementInfo, elementType, f) ==
  DataEntries(pg, elementInfo.dataAttributes, elementType, f)

\* Strategy 6: Try class name (first class only)
Strategy6(pg, elementInfo, elementType, f) ==
  IF elementInfo.class = Absent \/ classes(elementInfo.class) = <<>> THEN Miss
  ELSE LET first == classes(elementInfo.class)[1]
           element == IF f # "none" THEN NoElement
                      ELSE QueryClass(pg, escapeCSSSelector(first),
                                      LAMBDA el : LooseKind(el, elementType))
       IN  IF element # NoElement
           THEN Hit(element, <<".">> \o first)
           ELSE Miss

\* Strategy 7: Try label text for inputs/checkboxes
Strategy7(pg, elementInfo, elementType, f) ==
  IF ~(elementType \in {"input", "checkbox"} /\ elementInfo.labelText # Absent) THEN Miss
  ELSE LET labelText == trim(elementInfo.labelText)
       IN  IF ~(labelText # <<>> /\ Len(labelText) < TextLimit) \/ f # "none" THEN Miss
           ELSE LET labelElement == GetByText(pg, labelText)
                IN  IF labelElement = NoElement \/ pg[labelElement].tag # "label" THEN Miss
                    ELSE LET forAttr == pg[labelElement].for
                         IN  IF forAttr # Absent
                             THEN LET inputElement == QueryId(pg, escapeCSSSelector(forAttr))
                                  IN  IF inputElement # NoElement
                                      THEN Hit(inputElement,
                                               <<"label[for=\"">> \o forAttr \o <<"\"]">>)
                                      ELSE Miss
                             ELSE LET inputInside == InputInside(pg, pg[labelElement])
                                  IN  IF inputInside # NoElement
                                      THEN Hit(inputInside,
                                               <<"label:has-text(\"">>
                                               \o substring(labelText, SelectorTextLimit)
                                               \o <<"\") > input">>)
                                      ELSE Miss

\* page.$$(...) of strategy 8: the handles of all elements of the type.
allElements(pg, elementType) ==
  SelectSeq([i \in 1..Len(pg) |-> i], LAMBDA i : StrictKind(pg[i], elementType))

\* Strategy 8: Try type and position-based selector (last resort)
RECURSIVE PositionScan(_, _, _, _, _)
PositionScan(pg, all, i, elementInfo, elementType) ==
  IF i > Len(all) THEN Miss
  ELSE LET el == pg[all[i]]
       IN  IF /\ elementType = "button" /\ elementInfo.text # Absent
              /\ textContent(el) # <<>>
              /\ trim(textContent(el)) = trim(elementInfo.text)
           THEN Hit(all[i], <<elementType, "[", ToString(i - 1), "] (matched by text)">>)
           ELSE IF /\ elementType = "input" /\ elementInfo.placeholder # Absent
                   /\ el.placeholder = elementInfo.placeholder
                THEN Hit(all[i], <<elementType, "[", ToString(i - 1),
                                   "] (matched by placeholder)">>)
                ELSE PositionScan(pg, all, i + 1, elementInfo, elementType)

\* Strategy 8 settling for the first element of the type.
Strategy8FirstOfType(pg, elementInfo, elementType, f) ==
  LET all == IF f # "none" THEN <<>> ELSE allElements(pg, elementType)
  IN  IF all # <<>> THEN Hit(all[1], <<elementType, "[", "0", "]">>) ELSE Miss

Strategy8(pg, elementInfo, elementType, f) ==
  PositionScan(pg, IF f # "none" THEN <<>> ELSE allElements(pg, elementType),
               1, elementInfo, elementType)

\* The guard of strategy k: whether the finder issues a lookup for it.
Applicable(k, elementInfo, elementType) ==
  CASE k = 1 -> elementInfo.id # Absent
    [] k = 2 -> elementInfo.name # Absent
    [] k = 3 -> /\ elementType = "button" /\ elementInfo.text # Absent
                /\ trim(elementInfo.text) # <<>> /\ Len(trim(elementInfo.text)) < TextLimit
    [] k = 4 -> elementType = "input" /\ elementInfo.placeholder # Absent
    [] k = 5 -> elementInfo.dataAttributes # <<>>
    [] k = 6 -> elementInfo.class # Absent /\ classes(elementInfo.class) # <<>>
    [] k = 7 -> /\ elementType \in {"input", "checkbox"} /\ elementInfo.labelText # Absent
                /\ trim(elementInfo.labelText) # <<>>
                /\ Len(trim(elementInfo.labelText)) < TextLimit
    [] k = 8 -> TRUE

RunStrategy(k, pg, elementInfo, elementType, f) ==
  CASE k = 1 -> Strategy1(pg, elementInfo, elementType, f)
    [] k = 2 -> Strategy2(pg, elementInfo, elementType, f)
    [] k = 3 -> Strategy3(pg, elementInfo, elementType, f)
    [] k = 4 -> Strategy4(pg, elementInfo, elementType, f)
    [] k = 5 -> Strategy5(pg, elementInfo, elementType, f)
    [] k = 6 -> Strategy6(pg, elementInfo, elementType, f)
    [] k = 7 -> Strategy7(pg, elementInfo, elementType, f)
    [] k = 8 -> Strategy8(pg, elementInfo, elementType, f)

\* The strategy a reported selector names, read off its fixed prefix.
StrategyOf(selector) ==
  IF selector = NullSelector THEN 0
  ELSE CASE Head(selector) = "#" -> 1
         [] Head(selector) = "[name=\"" -> 2
         [] Head(selector) \in {"text: \"", "role=button, name=\""} -> 3
         [] Head(selector) = "[placeholder=\"" -> 4
         [] Head(selector) = "[" -> 5
         [] Head(selector) = "." -> 6
         [] Head(selector) \in {"label[for=\"", "label:has-text(\""} -> 7
         [] OTHER -> 8

\* Caught with the label lookup of strategy 7 outside its try block.
CaughtSaveLabel(k, f) == f = "none" \/ k # 7

\* Whether the try block (or .catch) around the lookups of strategy k
\* catches fault f: every lookup of the finder sits inside one.
Caught(k, f) == TRUE

\* AfterStrategy without the early return: the call runs on to the last
\* strategy and reports its outcome.
AfterStrategyNoReturn(k, r) ==
  IF k = LastStrategy
  THEN [pc |-> "returned", strategy |-> k, result |-> r]
  ELSE [pc |-> "running", strategy |-> k + 1, result |-> Miss]

\* What the finder does with the outcome r of strategy k: return it when it
\* holds an element, return {null, null} after the last strategy, otherwise
\* go on to strategy k + 1.
AfterStrategy(k, r) ==
  IF r.element # NoElement
  THEN [pc |-> "returned", strategy |-> k, result |-> r]
  ELSE IF k = LastStrategy
       THEN [pc |-> "returned", strategy |-> k, result |-> Miss]
       ELSE [pc |-> "running", strategy |-> k + 1, result |-> Miss]

\* The whole chain, from strategy k on, under a fault for each strategy.
RECURSIVE FindFrom(_, _, _, _, _)
FindFrom(k, pg, elementInfo, elementType, faults) ==
  LET a == AfterStrategy(k, RunStrategy(k, pg, elementInfo, elementType, faults[k]))
  IN  IF a.pc = "returned" THEN a.result
      ELSE FindFrom(a.strategy, pg, elementInfo, elementType, faults)

findElementWithMultipleStrategies(pg, elementInfo, elementType, faults) ==
  FindFrom(1, pg, elementInfo, elementType, faults)

(***************************************************************************)
(* Descriptors (ElementDescriptor): a null field is Absent, a null         *)
(* dataAttributes or an empty options list is the empty sequence.          *)
(***************************************************************************)
Desc ==
  [id |-> Absent, name |-> Absent, text |-> Absent, placeholder |-> Absent,
   dataAttributes |-> <<>>, class |-> Absent, labelText |-> Absent, options |-> <<>>]

ElementTypes == {"button", "input", "select", "checkbox"}
Strategies == 1..LastStrategy
FaultKinds == {"none", "reject", "throw", "throwAll"}
NoFaults == [k \in Strategies |-> "none"]
FaultCount(fs) == Cardinality({k \in Strategies : fs[k] # "none"})

\* The faults that differ in effect at strategy k.
FaultsAt(k) == IF k = 3 THEN FaultKinds ELSE {"none", "reject"}

(***************************************************************************)
(* Inputs of the finder.  Sets of at most n positions of a pool, and the   *)
(* page made of the chosen elements in document order.                     *)
(***************************************************************************)
RECURSIVE Choices(_, _)
Choices(N, n) ==
  IF n = 0 THEN {{}}
  ELSE Choices(N, n - 1) \cup {S \cup {i} : S \in Choices(N, n - 1), i \in 1..N}

PageOf(pool, S) ==
  LET idx == SelectSeq([i \in 1..Len(pool) |-> i], LAMBDA i : i \in S)
  IN  [j \in 1..Len(idx) |-> pool[idx[j]]]

RECURSIVE StringsUpTo(_, _)
StringsUpTo(chars, n) ==
  IF n = 0 THEN {<<>>}
  ELSE StringsUpTo(chars, n - 1)
       \cup {Append(s, c) : s \in StringsUpTo(chars, n - 1), c \in chars}

IdChars == {"a", "#", ".", ":"}
Ids == StringsUpTo(IdChars, MaxIdLen) \ {<<>>}

\* Elements that each carry one of the signals of a descriptor whose id is idv.
FindPool(idv) ==
  << [Elem("div", "", 1) EXCEPT !.text = <<"t", "x">>],
     [Elem("label", "", 2) EXCEPT !.text = <<"l">>, !.for = idv],
     [Elem("label", "", 3) EXCEPT !.text = <<"l">>],
     [Elem("input", "checkbox", 4) EXCEPT !.parent = 3],
     [Elem("button", "", 5) EXCEPT !.id = idv],
     [Elem("button", "", 6) EXCEPT !.name = <<"n">>],
     [Elem("button", "", 7) EXCEPT !.text = <<" ", "t">>],
     [Elem("button", "", 8) EXCEPT !.data = << <<"data-x", <<"v">> >> >>],
     [Elem("button", "", 9) EXCEPT !.class = <<"c", " ", "z">>],
     [Elem("input", "text", 10) EXCEPT !.id = idv],
     [Elem("input", "text", 11) EXCEPT !.name = <<"n">>],
     [Elem("input", "text", 12) EXCEPT !.placeholder = <<"p">>],
     [Elem("input", "submit", 13) EXCEPT !.name = <<"n">>, !.text = <<"t">>],
     [Elem("input", "checkbox", 14) EXCEPT !.name = <<"n">>],
     [Elem("input", "checkbox", 15) EXCEPT !.id = idv],
     [Elem("select", "", 16) EXCEPT !.name = <<"n">>],
     [Elem("select", "", 17) EXCEPT !.id = idv] >>

\* The descriptor with every field the kind has.
FullDesc(elementType, idv) ==
  CASE elementType = "button" ->
         [Desc EXCEPT !.id = idv, !.name = <<"n">>, !.text = <<"t">>,
                      !.dataAttributes = << <<"data-x", <<"v">> >> >>,
                      !.class = <<"c", " ", "b">>]
    [] elementType = "input" ->
         [Desc EXCEPT !.id = idv, !.name = <<"n">>, !.placeholder = <<"p">>,
                      !.labelText = <<"l">>]
    [] elementType = "select" ->
         [Desc EXCEPT !.id = idv, !.name = <<"n">>,
                      !.options = << [value |-> <<"v">>, text |-> <<"t">>] >>]
    [] elementType = "checkbox" ->
         [Desc EXCEPT !.id = idv, !.name = <<"n">>, !.labelText = <<"l">>]

SignalFields == {"id", "name", "text", "placeholder", "dataAttributes", "class", "labelText"}

\* The full descriptor, the full descriptor without one of its signals, and
\* the descriptor with no signal at all.
FindDescs(elementType, idv) ==
  LET full == FullDesc(elementType, idv)
  IN  {full, [full EXCEPT !.id = Absent, !.name = Absent, !.text = Absent,
                          !.placeholder = Absent, !.dataAttributes = <<>>,
                          !.class = Absent, !.labelText = Absent]}
      \cup {[full EXCEPT ![fld] = <<>>] : fld \in SignalFields}

ChainScenarios ==
  UNION {{[page |-> PageOf(FindPool(<<"a">>), S), info |-> d, type |-> ty] :
            S \in Choices(Len(FindPool(<<"a">>)), MaxElems),
            d \in FindDescs(ty, <<"a">>)} : ty \in ElementTypes}

\* Pages holding exactly one element with the id of the descriptor.
IdScenarios ==
  UNION {{[page |-> PageOf(FindPool(idv), S), info |-> FullDesc(ty, idv), type |-> ty] :
            S \in {{5}, {15}, {5, 14}, {6, 15}}, ty \in ElementTypes} : idv \in Ids}

\* Labels, the inputs they control, and a text that is no label.
LabelPool ==
  << [Elem("span", "", 1) EXCEPT !.text = <<"l">>],
     [Elem("label", "", 2) EXCEPT !.text = <<"l">>, !.for = <<"a">>],
     [Elem("label", "", 3) EXCEPT !.text = <<"l">>],
     [Elem("label", "", 4) EXCEPT !.text = <<"l">>, !.for = <<"x">>],
     [Elem("input", "text", 5) EXCEPT !.id = <<"a">>],
     [Elem("input", "checkbox", 6) EXCEPT !.parent = 3],
     [Elem("input", "text", 7) EXCEPT !.parent = 4],
     [Elem("input", "text", 8) EXCEPT !.parent = 3],
     [Elem("input", "checkbox", 9) EXCEPT !.id = <<"a">>] >>

\* Pages of labels and inputs, and the descriptors analyzeBody gives an
\* input or a checkbox that has nothing but its label.
LabelScenarios ==
  {[page |-> PageOf(LabelPool, S), info |-> [Desc EXCEPT !.labelText = <<"l">>], type |-> ty] :
     S \in Choices(Len(LabelPool), MaxElems) \cup {{1, 2, 5}, {1, 3, 6}},
     ty \in {"input", "checkbox"}}

FindScenarios == ChainScenarios \cup IdScenarios \cup LabelScenarios

(***************************************************************************)
(* What Playwright reports of a live element.  cond is one of              *)
(*   "ok"        rendered, enabled, editable                               *)
(*   "hidden"    visibility: hidden (a box, but not visible)               *)
(*   "nobox"     display: none (no box, not visible)                       *)
(*   "disabled"  carries the disabled attribute                            *)
(*   "readonly"  carries the readonly attribute                            *)
(***************************************************************************)
Conds == {"ok", "hidden", "nobox", "disabled", "readonly"}
isVisible(el) == el.cond \notin {"hidden", "nobox"}
isEnabled(el) == el.cond # "disabled"
boundingBox(el) == el.cond # "nobox"
hasReadonly(el) == el.cond = "readonly"
hasDisabled(el) == el.cond = "disabled"

\* The actionability checks click, fill and selectOption wait for; the
\* action times out, and throws, on an element that does not pass them.
Actionable(el) == isVisible(el) /\ isEnabled(el) /\ ~hasReadonly(el)

(***************************************************************************)
(* analyzeBody: the descriptors taken from the page, bucket by bucket.     *)
(***************************************************************************)
Buckets == {"buttons", "inputs", "dropdowns", "checkboxes"}

KindOf(bucket) ==
  CASE bucket = "buttons" -> "button"
    [] bucket = "inputs" -> "input"
    [] bucket = "dropdowns" -> "select"
    [] bucket = "checkboxes" -> "checkbox"

Positions(pg, P(_)) == SelectSeq([i \in 1..Len(pg) |-> i], LAMBDA i : P(pg[i]))

\* input.closest('label')?.textContent?.trim()
ClosestLabelText(pg, el) ==
  LET l == FirstMatch(pg, LAMBDA x : x.tag = "label" /\ x.key = el.parent)
  IN  IF el.parent = 0 \/ l = NoElement THEN Absent ELSE trim(pg[l].text)

\* body.querySelector(`label[for="${id}"]`)?.textContent?.trim()
LabelForText(pg, el) ==
  LET l == IF el.id = Absent THEN NoElement
           ELSE QueryAttr(pg, "for", el.id, LAMBDA x : x.tag = "label")
  IN  IF l = NoElement THEN Absent ELSE trim(pg[l].text)

FirstPresent(a, b) == IF a # Absent THEN a ELSE b

analyzeBody(pg) ==
  LET tagButtons == Positions(pg, LAMBDA el : el.tag = "button")
      inputButtons == Positions(pg, LAMBDA el :
                        el.tag = "input" /\ el.type \in {"button", "submit", "reset"})
      selects == Positions(pg, IsSelect)
      inputs == Positions(pg, IsPlainInput)
      checkboxes == Positions(pg, IsCheckbox)
  IN  [buttons |->
         [j \in 1..Len(tagButtons) |->
            LET el == pg[tagButtons[j]]
            IN  [Desc EXCEPT !.text = trim(el.text), !.id = el.id, !.name = el.name,
                             !.class = el.class, !.dataAttributes = el.data]]
         \o
         [j \in 1..Len(inputButtons) |->
            LET el == pg[inputButtons[j]]
            IN  [Desc EXCEPT !.text = FirstPresent(ClosestLabelText(pg, el),
                                        FirstPresent(LabelForText(pg, el), el.text)),
                             !.id = el.id, !.name = el.name, !.class = el.class]],
       dropdowns |->
         [j \in 1..Len(selects) |->
            LET el == pg[selects[j]]
            IN  [Desc EXCEPT !.id = el.id, !.name = el.name,
                             !.options = [o \in 1..Len(el.options) |->
                                            [value |-> el.options[o], text |-> el.options[o]]]]],
       inputs |->
         [j \in 1..Len(inputs) |->
            LET el == pg[inputs[j]]
            IN  [Desc EXCEPT !.name = el.name, !.id = el.id,
                             !.placeholder = el.placeholder]],
       checkboxes |->
         [j \in 1..Len(checkboxes) |->
            LET el == pg[checkboxes[j]]
            IN  [Desc EXCEPT !.id = el.id, !.name = el.name,
                             !.labelText = FirstPresent(LabelForText(pg, el),
                                                        ClosestLabelText(pg, el))]]]

NoDescriptors ==
  [buttons |-> <<>>, inputs |-> <<>>, dropdowns |-> <<>>, checkboxes |-> <<>>]

(***************************************************************************)
(* testResults objects of testInteractiveElements.                         *)
(***************************************************************************)
NoError == "null"

\* { timeout: 800 } of the probing fill, selectOption and click; and a call
\* that passes no timeout option.
ProbeTimeout == 800
NoTimeoutOption == 0
NotFoundMessage == "Element not found using any selector strategy"
TestValue == <<"t", "e", "s", "t">>

\* isVisible && isEnabled && boundingBox !== null with the enabled check
\* left out.
isClickableNoEnabled(v, e, b) == v /\ b

\* isVisible && isEnabled && boundingBox !== null
isClickable(v, e, b) == v /\ e /\ b

\* isVisible && isEnabled && !isDisabled && boundingBox !== null, with the
\* readonly check left out.
isFillableNoReadonly(v, e, r, d, b) == v /\ e /\ ~d /\ b

\* isVisible && isEnabled && !isReadOnly && !isDisabled && boundingBox !== null
isFillable(v, e, r, d, b) == v /\ e /\ ~r /\ ~d /\ b

\* The testResults of an element of the kind: cap is the interaction flag
\* (fillable, selectable, toggleable), f the flags read off the element.
TestResults(kind, cap, f, selector, error) ==
  CASE kind = "button" ->
         [clickable |-> isClickable(f.visible, f.enabled, f.hasBox),
          visible |-> f.visible, enabled |-> f.enabled, hasDimensions |-> f.hasBox,
          selector |-> selector, error |-> error]
    [] kind = "input" ->
         [fillable |-> cap, visible |-> f.visible, enabled |-> f.enabled,
          readonly |-> f.readonly, disabled |-> f.disabled, hasDimensions |-> f.hasBox,
          selector |-> selector, error |-> error]
    [] kind = "select" ->
         [clickable |-> isClickable(f.visible, f.enabled, f.hasBox), selectable |-> cap,
          visible |-> f.visible, enabled |-> f.enabled, hasDimensions |-> f.hasBox,
          selector |-> selector, error |-> error]
    [] kind = "checkbox" ->
         [clickable |-> isClickable(f.visible, f.enabled, f.hasBox), toggleable |-> cap,
          visible |-> f.visible, enabled |-> f.enabled, hasDimensions |-> f.hasBox,
          selector |-> selector, error |-> error]

NoFlags ==
  [visible |-> FALSE, enabled |-> FALSE, hasBox |-> FALSE,
   readonly |-> FALSE, disabled |-> FALSE]

\* The else branch (element null) and the catch branch of a probe.
FailedResults(kind, error) == TestResults(kind, FALSE, NoFlags, NullSelector, error)

\* The kind-specific capability flag of a testResults object.
Capability(kind, tr) ==
  CASE kind = "button" -> tr.clickable
    [] kind = "input" -> tr.fillable
    [] kind = "select" -> tr.selectable
    [] kind = "checkbox" -> tr.toggleable

(***************************************************************************)
(* Inputs of a batch: the page analyzeBody saw, and the live page, which   *)
(* is that page or that page after one element went away.                  *)
(***************************************************************************)
BatchPool ==
  << [Elem("button", "", 1) EXCEPT !.name = <<"n">>, !.text = <<"t">>],
     [Elem("input", "text", 2) EXCEPT !.name = <<"n">>],
     [Elem("input", "text", 3) EXCEPT !.placeholder = <<"p">>],
     [Elem("select", "", 4) EXCEPT !.name = <<"n">>, !.options = << <<"v">> >>],
     [Elem("input", "checkbox", 5) EXCEPT !.name = <<"n">>],
     [Elem("input", "checkbox", 6) EXCEPT !.name = <<"n">>],
     Elem("input", "checkbox", 7) >>

\* The pages of at most MaxProbes elements; the first one in any condition.
BatchPages ==
  {<<>>} \cup
  {[PageOf(BatchPool, S) EXCEPT ![1].cond = c] :
     S \in Choices(Len(BatchPool), MaxProbes) \ {{}}, c \in Conds}

DropAt(pg, k) == [j \in 1..(Len(pg) - 1) |-> IF j < k THEN pg[j] ELSE pg[j + 1]]

\* Every way of letting at most n lookups of one finder call fail.
RECURSIVE FaultPlans(_)
FaultPlans(n) ==
  IF n = 0 THEN {NoFaults}
  ELSE FaultPlans(n - 1)
       \cup UNION {{[fs EXCEPT ![k] = f] : fs \in FaultPlans(n - 1), f \in FaultsAt(k)} :
                     k \in Strategies}

(***************************************************************************)
(* State.                                                                  *)
(*   page          the live page                                           *)
(* of a call of findElementWithMultipleStrategies:                         *)
(*   elementInfo, elementType   arguments of the call                      *)
(*   fpc, strategy position of the call: "running" before strategy         *)
(*                 `strategy`, "returned", "threw" ("idle": no call)       *)
(*   found         {element, selector} of the call (null, null at first)   *)
(*   issued        strategies whose lookup has been issued                 *)
(*   faults        the fault each strategy met                             *)
(* of a call of testInteractiveElements:                                   *)
(*   bodyAnalysis  the descriptors, by bucket                              *)
(*   tpc           position of the probe of each descriptor                *)
(*   probe         locals of each probe                                    *)
(*   results       the entry each probe resolved to (<<>> while pending)   *)
(*   completed     the probes in the order they completed                  *)
(*   checked, value, selected   state of the live elements                 *)
(*   checked0, value0           that state when the batch started          *)
(*   bfaults       failed Playwright calls of the batch so far             *)
(*   output, phase the returned object; "running", "returned" ("idle")     *)
(* of a call of scanWebsite, analyzeUrl, analyzeUrlStream or               *)
(* takeScrollScreenshots:                                                  *)
(*   handler       the function called ("none": no call)                   *)
(*   url           req.query.url: "missing", "malformed", "unreachable"    *)
(*                 (well-formed, but nothing answers there) or "ok"        *)
(*   hpc           position of the call                                    *)
(*   browser       the local browser: "null" or "launched"                 *)
(*   launched      chromium.launch has resolved                            *)
(*   closeCalls    invocations of browser.close() so far                   *)
(*   events        the SSE events written to the response, in order        *)
(*   ended         times the response was finished (res.end, res.json)     *)
(*   status        the HTTP status set on the response (0: none yet)       *)
(*   failures      the awaited steps that rejected, in order               *)
(*   llm           the call of analyzeScanData: its inputs and result      *)
(*   settled       how the promise of takeScrollScreenshots settled        *)
(* of a call of analyzeHead:                                               *)
(*   head          the meta tags of the head, in document order            *)
(*   mpc           position of the call: "metas", "ensure", "done"         *)
(*                 ("idle": no call)                                       *)
(*   analysis      the metaSummary built so far                            *)
(* of a call of analyzeUrlStream of the client:                            *)
(*   sent          the events the server wrote                             *)
(*   stream        the characters of the response not read yet             *)
(*   buffer        the incomplete line kept between two reads              *)
(*   messages      the messages handed to onMessage, in order              *)
(*   rpc           "reading", "done" ("idle": no call)                     *)
(* of the Results page:                                                    *)
(*   urlParam      the url parameter of the location                       *)
(*   requests      the scan requests in flight, by url                     *)
(*   data, loading, error   the state of the component                     *)
(***************************************************************************)
VARIABLES page, elementInfo, elementType, fpc, strategy, found, issued, faults,
          bodyAnalysis, tpc, probe, results, completed, checked, value, selected,
          checked0, value0, bfaults, output, phase,
          handler, url, hpc, browser, launched, closeCalls, events, ended, status,
          failures, llm, settled,
          head, mpc, analysis,
          sent, stream, buffer, messages, rpc,
          urlParam, requests, data, loading, error, domAnalysis, domLoading, domError

finderVars == <<elementInfo, elementType, fpc, strategy, found, issued, faults>>
batchVars == <<bodyAnalysis, tpc, probe, results, completed, checked, value, selected,
               checked0, value0, bfaults, output, phase>>
handlerVars == <<handler, url, hpc, browser, launched, closeCalls, events, ended,
                 status, failures, llm, settled>>
headVars == <<head, mpc, analysis>>
readerVars == <<sent, stream, buffer, messages, rpc>>
resultsVars == <<urlParam, requests, data, loading, error, domAnalysis, domLoading, domError>>
clientVars == <<readerVars, resultsVars>>
vars == <<page, finderVars, batchVars, handlerVars, headVars, clientVars>>

Tasks == {<<b, i>> : b \in Buckets, i \in 1..MaxProbes}
TasksOf(ba) == {t \in Tasks : t[2] <= Len(ba[t[1]])}
DescOf(t) == bodyAnalysis[t[1]][t[2]]

\* The locals of a probe, and a log of what it did: calls holds the Playwright
\* calls it issued on its element, each with the timeout option it carried;
\* readFailed says that one of its property reads rejected.
NoProbe ==
  [element |-> NoElement, selector |-> NullSelector, flags |-> NoFlags,
   wasChecked |-> FALSE, threw |-> FALSE, before |-> FALSE, after |-> FALSE,
   calls |-> {}, readFailed |-> FALSE]

FinderIdle ==
  /\ elementInfo = Desc
  /\ elementType = "button"
  /\ fpc = "idle"
  /\ strategy = 1
  /\ found = Miss
  /\ issued = {}
  /\ faults = NoFaults

BatchIdle ==
  /\ bodyAnalysis = NoDescriptors
  /\ tpc = <<>>
  /\ probe = <<>>
  /\ results = <<>>
  /\ completed = <<>>
  /\ checked = <<>>
  /\ value = <<>>
  /\ selected = <<>>
  /\ checked0 = <<>>
  /\ value0 = <<>>
  /\ bfaults = 0
  /\ output = NoDescriptors
  /\ phase = "idle"

NoBrowser == "null"
NoCall == [called |-> FALSE]
Pending == [state |-> "pending"]

HandlerIdle ==
  /\ handler = "none"
  /\ url = "missing"
  /\ hpc = "idle"
  /\ browser = NoBrowser
  /\ launched = FALSE
  /\ closeCalls = 0
  /\ events = <<>>
  /\ ended = 0
  /\ status = 0
  /\ failures = <<>>
  /\ llm = NoCall
  /\ settled = Pending

HeadIdle ==
  /\ head = <<>>
  /\ mpc = "idle"
  /\ analysis = [important |-> <<>>, all |-> <<>>]

ReaderIdle ==
  /\ sent = <<>>
  /\ stream = <<>>
  /\ buffer = <<>>
  /\ messages = <<>>
  /\ rpc = "idle"

\* The useState values of the Results page; no request is in flight.
ResultsIdle ==
  /\ urlParam = "null"
  /\ requests = <<>>
  /\ data = [screenshot |-> <<"">>, bugs |-> <<>>, fixes |-> <<>>]
  /\ loading = TRUE
  /\ error = ""
  /\ domAnalysis = <<"null">>
  /\ domLoading = FALSE
  /\ domError = ""

ClientIdle == ReaderIdle /\ ResultsIdle

(***************************************************************************)
(* findElementWithMultipleStrategies, strategy by strategy.                *)
(***************************************************************************)
InitFind ==
  /\ HeadIdle
  /\ ClientIdle
  /\ \E sc \in FindScenarios :
       /\ page = sc.page
       /\ elementInfo = sc.info
       /\ elementType = sc.type
  /\ fpc = "running"
  /\ strategy = 1
  /\ found = Miss
  /\ issued = {}
  /\ faults = NoFaults
  /\ BatchIdle
  /\ HandlerIdle

\* One strategy of findElementWithMultipleStrategies.
Try(k) ==
  /\ fpc = "running"
  /\ strategy = k
  /\ \E f \in FaultsAt(k) :
       /\ f # "none" => Applicable(k, elementInfo, elementType) /\ FaultCount(faults) < MaxFaults
       /\ faults' = [faults EXCEPT ![k] = f]
       /\ issued' = IF Applicable(k, elementInfo, elementType)
                    THEN issued \cup {k} ELSE issued
       /\ IF Caught(k, f)
          THEN LET a == AfterStrategy(k, RunStrategy(k, page, elementInfo, elementType, f))
               IN  /\ fpc' = a.pc
                   /\ strategy' = a.strategy
                   /\ found' = a.result
          ELSE /\ fpc' = "threw"
               /\ UNCHANGED <<strategy, found>>
  /\ UNCHANGED <<page, elementInfo, elementType, batchVars, handlerVars>>
  /\ UNCHANGED <<headVars, clientVars>>

TryId == Try(1)
TryName == Try(2)
TryText == Try(3)
TryPlaceholder == Try(4)
TryDataAttributes == Try(5)
TryClass == Try(6)
TryLabel == Try(7)
TryPosition == Try(8)

NextFind ==
  \/ TryId
  \/ TryName
  \/ TryText
  \/ TryPlaceholder
  \/ TryDataAttributes
  \/ TryClass
  \/ TryLabel
  \/ TryPosition

SpecFind == InitFind /\ [][NextFind]_vars

(***************************************************************************)
(* testInteractiveElements: one probe per descriptor, all started at once  *)
(* (Promise.all over map); the probes interleave at their awaits.          *)
(***************************************************************************)
Init ==
  /\ HeadIdle
  /\ ClientIdle
  /\ FinderIdle
  /\ HandlerIdle
  /\ \E snapshot \in BatchPages, k \in 0..MaxProbes :
       /\ k <= Len(snapshot)
       /\ page = IF k = 0 THEN snapshot ELSE DropAt(snapshot, k)
       /\ bodyAnalysis = analyzeBody(snapshot)
  /\ checked \in {c \in [1..Len(page) -> BOOLEAN] :
                    \A i \in 1..Len(page) : c[i] => IsCheckbox(page[i])}
  /\ value \in {v \in [1..Len(page) -> {<<>>, <<"x">>}] :
                  \A i \in 1..Len(page) : v[i] # <<>> => IsPlainInput(page[i])}
  /\ selected = [i \in 1..Len(page) |-> <<>>]
  /\ checked0 = checked
  /\ value0 = value
  /\ tpc = [t \in TasksOf(bodyAnalysis) |-> "find"]
  /\ probe = [t \in TasksOf(bodyAnalysis) |-> NoProbe]
  /\ results = [t \in TasksOf(bodyAnalysis) |-> <<>>]
  /\ completed = <<>>
  /\ bfaults = 0
  /\ output = NoDescriptors
  /\ phase = "running"

\* probe, with the call of op under the timeout option logged for the probe of t.
Called(t, op, timeout) == [probe EXCEPT ![t].calls = @ \cup {<<op, timeout>>}]

\* Spread keeping nothing of the descriptor.
SpreadTestResultsOnly(d, tr) == [f \in {"testResults"} |-> tr]

\* { ...descriptor, testResults: tr }: a new object with the fields of the
\* descriptor and testResults, which overrides a field of that name.
Spread(d, tr) ==
  [f \in DOMAIN d \cup {"testResults"} |-> IF f = "testResults" THEN tr ELSE d[f]]

\* The fields of entry e other than testResults.
Fields(e) == [f \in DOMAIN e \ {"testResults"} |-> e[f]]

\* The probe of t returns its entry: the descriptor with testResults tr.
Return(t, tr) ==
  /\ results' = [results EXCEPT ![t] = << Spread(DescOf(t), tr) >>]
  /\ completed' = Append(completed, t)
  /\ tpc' = [tpc EXCEPT ![t] = "done"]

Goto(t, pc) ==
  /\ tpc' = [tpc EXCEPT ![t] = pc]
  /\ UNCHANGED <<results, completed>>

\* A Playwright action on element e either completes, which takes an
\* actionable element, or throws: on a timeout, or for want of actionability.
\* failed is the outcome; it counts as a fault when the element was fine.
Outcome(e, failed) ==
  /\ failed => (~Actionable(page[e]) \/ bfaults < MaxFaults)
  /\ ~failed => Actionable(page[e])
  /\ bfaults' = IF failed /\ Actionable(page[e]) THEN bfaults + 1 ELSE bfaults

\* A read that .catch() turns into a default: it fails within the budget.
ReadFault(failed) ==
  /\ failed => bfaults < MaxFaults
  /\ bfaults' = IF failed THEN bfaults + 1 ELSE bfaults

\* const { element, selector } = await findElementWithMultipleStrategies(...)
Find(t) ==
  /\ phase = "running"
  /\ t \in DOMAIN tpc
  /\ tpc[t] = "find"
  /\ \E fs \in FaultPlans(MaxFaults - bfaults) :
       LET kind == KindOf(t[1])
           r == findElementWithMultipleStrategies(page, DescOf(t), kind, fs)
       IN  /\ \A k \in Strategies : fs[k] # "none" => Applicable(k, DescOf(t), kind)
           /\ bfaults' = bfaults + FaultCount(fs)
           /\ IF \E k \in Strategies : ~Caught(k, fs[k])
              THEN /\ Return(t, FailedResults(kind, "error.message"))
                   /\ probe' = [probe EXCEPT ![t].threw = TRUE]
              ELSE IF r.element # NoElement
                   THEN /\ probe' = [probe EXCEPT ![t].element = r.element,
                                                  ![t].selector = r.selector]
                        /\ Goto(t, "props")
                   ELSE /\ Return(t, FailedResults(kind, NotFoundMessage))
                        /\ UNCHANGED probe
  /\ UNCHANGED <<page, finderVars, handlerVars, bodyAnalysis, checked, value, selected,
                 checked0, value0, output, phase>>
  /\ UNCHANGED <<headVars, clientVars>>

\* The property reads, and for a button a click as well.
ReadsAndClick(kind) ==
  IF kind = "input"
  THEN {"isVisible", "isEnabled", "readonly", "disabled", "boundingBox"}
  ELSE IF kind = "button"
       THEN {"isVisible", "isEnabled", "boundingBox", "click"}
       ELSE {"isVisible", "isEnabled", "boundingBox"}

\* The calls of the Promise.all of property checks of a probe of the kind.
Reads(kind) ==
  IF kind = "input"
  THEN {"isVisible", "isEnabled", "readonly", "disabled", "boundingBox"}
  ELSE {"isVisible", "isEnabled", "boundingBox"}

\* The Promise.all of the property checks and the branch that follows it.
Props(t) ==
  /\ phase = "running"
  /\ t \in DOMAIN tpc
  /\ tpc[t] = "props"
  /\ \E failed \in SUBSET Reads(KindOf(t[1])) :
       LET kind == KindOf(t[1])
           el == page[probe[t].element]
           f == [visible |-> "isVisible" \notin failed /\ isVisible(el),
                 enabled |-> "isEnabled" \notin failed /\ isEnabled(el),
                 hasBox |-> "boundingBox" \notin failed /\ boundingBox(el),
                 readonly |-> kind = "input" /\ "readonly" \notin failed /\ hasReadonly(el),
                 disabled |-> kind = "input" /\ "disabled" \notin failed /\ hasDisabled(el)]
           done == TestResults(kind, FALSE, f, probe[t].selector, NoError)
       IN  /\ bfaults + Cardinality(failed) <= MaxFaults
           /\ bfaults' = bfaults + Cardinality(failed)
           /\ probe' = [probe EXCEPT ![t].flags = f,
                                     ![t].readFailed = failed # {},
                                     ![t].calls = @ \cup {<<r, NoTimeoutOption>> : r \in Reads(kind)}]
           /\ CASE kind = "button" -> Return(t, done)
                [] kind = "input" ->
                     IF isFillable(f.visible, f.enabled, f.readonly, f.disabled, f.hasBox)
                     THEN Goto(t, "fill") ELSE Return(t, done)
                [] kind = "select" ->
                     IF isClickable(f.visible, f.enabled, f.hasBox) /\ Len(DescOf(t).options) > 0
                     THEN Goto(t, "selectOption") ELSE Return(t, done)
                [] kind = "checkbox" ->
                     IF isClickable(f.visible, f.enabled, f.hasBox)
                     THEN Goto(t, "isChecked") ELSE Return(t, done)
  /\ UNCHANGED <<page, finderVars, handlerVars, bodyAnalysis, checked, value, selected,
                 checked0, value0, output, phase>>
  /\ UNCHANGED <<headVars, clientVars>>

\* await element.fill('test', { timeout: 800 })
Fill(t) ==
  /\ phase = "running"
  /\ t \in DOMAIN tpc
  /\ tpc[t] = "fill"
  /\ \E failed \in BOOLEAN :
       LET e == probe[t].element
       IN  /\ Outcome(e, failed)
           /\ IF failed
              THEN /\ probe' = [Called(t, "fill", ProbeTimeout) EXCEPT ![t].threw = TRUE]
                   /\ Return(t, TestResults("input", FALSE, probe[t].flags,
                                            probe[t].selector, NoError))
                   /\ UNCHANGED value
              ELSE /\ value' = [value EXCEPT ![e] = TestValue]
                   /\ Goto(t, "clear")
                   /\ probe' = Called(t, "fill", ProbeTimeout)
  /\ UNCHANGED <<page, finderVars, handlerVars, bodyAnalysis, checked, selected,
                 checked0, value0, output, phase>>
  /\ UNCHANGED <<headVars, clientVars>>

\* fillable = true; await element.fill('').catch(() => {})
Clear(t) ==
  /\ phase = "running"
  /\ t \in DOMAIN tpc
  /\ tpc[t] = "clear"
  /\ \E failed \in BOOLEAN :
       LET e == probe[t].element
       IN  /\ Outcome(e, failed)
           /\ value' = IF failed THEN value ELSE [value EXCEPT ![e] = <<>>]
           /\ probe' = Called(t, "fill", NoTimeoutOption)
           /\ Return(t, TestResults("input", TRUE, probe[t].flags,
                                    probe[t].selector, NoError))
  /\ UNCHANGED <<page, finderVars, handlerVars, bodyAnalysis, checked, selected,
                 checked0, value0, output, phase>>
  /\ UNCHANGED <<headVars, clientVars>>

\* await element.selectOption(firstOptionValue, { timeout: 800 })
SelectOption(t) ==
  /\ phase = "running"
  /\ t \in DOMAIN tpc
  /\ tpc[t] = "selectOption"
  /\ \E failed \in BOOLEAN :
       LET e == probe[t].element
           first == DescOf(t).options[1]
           firstOptionValue == FirstPresent(first.value, first.text)
           offered == \E o \in 1..Len(page[e].options) : page[e].options[o] = firstOptionValue
       IN  /\ failed => (~Actionable(page[e]) \/ ~offered \/ bfaults < MaxFaults)
           /\ ~failed => (Actionable(page[e]) /\ offered)
           /\ bfaults' = IF failed /\ Actionable(page[e]) /\ offered
                         THEN bfaults + 1 ELSE bfaults
           /\ selected' = IF failed THEN selected
                          ELSE [selected EXCEPT ![e] = firstOptionValue]
           /\ probe' = [Called(t, "selectOption", ProbeTimeout) EXCEPT ![t].threw = failed]
           /\ Return(t, TestResults("select", ~failed, probe[t].flags,
                                    probe[t].selector, NoError))
  /\ UNCHANGED <<page, finderVars, handlerVars, bodyAnalysis, checked, value,
                 checked0, value0, output, phase>>
  /\ UNCHANGED <<headVars, clientVars>>

\* const wasChecked = await element.isChecked().catch(() => false)
IsChecked(t) ==
  /\ phase = "running"
  /\ t \in DOMAIN tpc
  /\ tpc[t] = "isChecked"
  /\ \E failed \in BOOLEAN :
       LET e == probe[t].element
       IN  /\ ReadFault(failed)
           /\ probe' = [Called(t, "isChecked", NoTimeoutOption)
                           EXCEPT ![t].wasChecked = ~failed /\ checked[e],
                                  ![t].before = checked[e],
                                  ![t].readFailed = @ \/ failed]
           /\ Goto(t, "click")
  /\ UNCHANGED <<page, finderVars, handlerVars, bodyAnalysis, checked, value, selected,
                 checked0, value0, output, phase>>
  /\ UNCHANGED <<headVars, clientVars>>

\* await element.click({ timeout: 800 })
Click(t) ==
  /\ phase = "running"
  /\ t \in DOMAIN tpc
  /\ tpc[t] = "click"
  /\ \E failed \in BOOLEAN :
       LET e == probe[t].element
       IN  /\ Outcome(e, failed)
           /\ IF failed
              THEN /\ probe' = [Called(t, "click", ProbeTimeout)
                                   EXCEPT ![t].threw = TRUE, ![t].after = checked[e]]
                   /\ Return(t, TestResults("checkbox", FALSE, probe[t].flags,
                                            probe[t].selector, NoError))
                   /\ UNCHANGED checked
              ELSE /\ checked' = [checked EXCEPT ![e] = ~checked[e]]
                   /\ Goto(t, "isNowChecked")
                   /\ probe' = Called(t, "click", ProbeTimeout)
  /\ UNCHANGED <<page, finderVars, handlerVars, bodyAnalysis, value, selected,
                 checked0, value0, output, phase>>
  /\ UNCHANGED <<headVars, clientVars>>

\* const isNowChecked = await element.isChecked().catch(() => false);
\* toggleable = wasChecked !== isNowChecked
IsNowChecked(t) ==
  /\ phase = "running"
  /\ t \in DOMAIN tpc
  /\ tpc[t] = "isNowChecked"
  /\ \E failed \in BOOLEAN :
       LET e == probe[t].element
           isNowChecked == ~failed /\ checked[e]
           toggleable == probe[t].wasChecked # isNowChecked
       IN  /\ ReadFault(failed)
           /\ IF toggleable
              THEN /\ Goto(t, "restore")
                   /\ probe' = [probe EXCEPT ![t].readFailed = @ \/ failed]
              ELSE /\ probe' = [probe EXCEPT ![t].after = checked[e],
                                             ![t].readFailed = @ \/ failed]
                   /\ Return(t, TestResults("checkbox", FALSE, probe[t].flags,
                                            probe[t].selector, NoError))
  /\ UNCHANGED <<page, finderVars, handlerVars, bodyAnalysis, checked, value, selected,
                 checked0, value0, output, phase>>
  /\ UNCHANGED <<headVars, clientVars>>

\* if (toggleable) { await element.click().catch(() => {}) }
Restore(t) ==
  /\ phase = "running"
  /\ t \in DOMAIN tpc
  /\ tpc[t] = "restore"
  /\ \E failed \in BOOLEAN :
       LET e == probe[t].element
       IN  /\ Outcome(e, failed)
           /\ checked' = IF failed THEN checked ELSE [checked EXCEPT ![e] = ~checked[e]]
           /\ probe' = [Called(t, "click", NoTimeoutOption) EXCEPT ![t].after = checked'[e]]
           /\ Return(t, TestResults("checkbox", TRUE, probe[t].flags,
                                    probe[t].selector, NoError))
  /\ UNCHANGED <<page, finderVars, handlerVars, bodyAnalysis, value, selected,
                 checked0, value0, output, phase>>
  /\ UNCHANGED <<headVars, clientVars>>

\* The entries of a bucket in the order the probes completed.
CollectAllByCompletion(bucket) ==
  LET ts == SelectSeq(completed, LAMBDA t : t[1] = bucket)
  IN  [i \in 1..Len(ts) |-> results[ts[i]][1]]

\* Promise.all over bodyAnalysis[bucket].map(...): the entries by index.
CollectAll(bucket) ==
  [i \in 1..Len(bodyAnalysis[bucket]) |-> results[<<bucket, i>>][1]]

\* Both Promise.all levels resolve once every probe has returned.
Finish ==
  /\ phase = "running"
  /\ \A t \in DOMAIN tpc : tpc[t] = "done"
  /\ output' = [b \in Buckets |-> CollectAll(b)]
  /\ phase' = "returned"
  /\ UNCHANGED <<page, finderVars, handlerVars, bodyAnalysis, tpc, probe, results, completed,
                 checked, value, selected, checked0, value0, bfaults>>
  /\ UNCHANGED <<headVars, clientVars>>

Next ==
  \/ \E t \in Tasks : Find(t)
  \/ \E t \in Tasks : Props(t)
  \/ \E t \in Tasks : Fill(t)
  \/ \E t \in Tasks : Clear(t)
  \/ \E t \in Tasks : SelectOption(t)
  \/ \E t \in Tasks : IsChecked(t)
  \/ \E t \in Tasks : Click(t)
  \/ \E t \in Tasks : IsNowChecked(t)
  \/ \E t \in Tasks : Restore(t)
  \/ Finish

Spec == Init /\ [][Next]_vars

(***************************************************************************)
(* analyzeScanData: the values of a completion are JSON values; of a       *)
(* field only its type matters (`x || []` keeps every truthy x).           *)
(***************************************************************************)
Undefined == [type |-> "undefined"]
EmptyArray == [type |-> "array", items |-> 0]
FieldValues == {Undefined, [type |-> "array", items |-> 1], [type |-> "string"]}

\* What the LLM request yields: no choices array at all, a choice without
\* content, or a content string that is malformed JSON, the JSON null, or a
\* JSON object.
Completions ==
  {[kind |-> "noChoices"], [kind |-> "noContent"],
   [kind |-> "text", json |-> "malformed"], [kind |-> "text", json |-> "null"]}
  \cup {[kind |-> "text", json |-> "object", bugs |-> b, fixes |-> f, suggestions |-> g] :
          b \in FieldValues, f \in FieldValues, g \in FieldValues}

EmptyObject ==
  [kind |-> "text", json |-> "object",
   bugs |-> Undefined, fixes |-> Undefined, suggestions |-> Undefined]

Truthy(v) == v.type \notin {"undefined", "null"}

\* v || []
OrEmpty(v) == IF Truthy(v) THEN v ELSE EmptyArray

\* The fallback object of the early returns and of the catch block.
LLMFallback(raw) ==
  [state |-> "returned", bugs |-> EmptyArray, fixes |-> EmptyArray,
   suggestions |-> EmptyArray, rawLLMResponse |-> raw]

\* The try block: the request, response.choices[0]?.message?.content ?? "{}",
\* JSON.parse with its own catch, and the return; "threw" where it throws.
TryCompletion(request, completion) ==
  IF request = "rejects" \/ completion.kind = "noChoices"
  THEN [state |-> "threw"]
  ELSE LET jsonText == IF completion.kind = "noContent" THEN EmptyObject ELSE completion
           parsed == IF jsonText.json = "malformed" THEN EmptyObject ELSE jsonText
       IN  IF parsed.json = "null"
           THEN [state |-> "threw"]
           ELSE [state |-> "returned", bugs |-> OrEmpty(parsed.bugs),
                 fixes |-> OrEmpty(parsed.fixes),
                 suggestions |-> OrEmpty(parsed.suggestions), rawLLMResponse |-> "parsed"]

\* analyzeScanData without the catch block around the request.
analyzeScanDataNoCatch(key, request, completion) ==
  IF ~key THEN LLMFallback("Missing OPENAI_API_KEY")
  ELSE TryCompletion(request, completion)

\* analyzeScanData; key says that OPENAI_API_KEY is set. OPENAI_MODEL has a
\* default, so the second early return is never taken.
analyzeScanData(key, request, completion) ==
  IF ~key THEN LLMFallback("Missing OPENAI_API_KEY")
  ELSE LET r == TryCompletion(request, completion)
       IN  IF r.state = "threw" THEN LLMFallback("error.message") ELSE r

\* The inputs of analyzeScanData that make the LLM fail: no key, a failed
\* request, a completion that is no JSON object.
LLMFailed(key, request, completion) ==
  \/ ~key
  \/ request = "rejects"
  \/ completion.kind = "noChoices"
  \/ completion.kind = "text" /\ completion.json \in {"malformed", "null"}

(***************************************************************************)
(* checkUrlAccessible: ok only for a well-formed URL whose HEAD request    *)
(* is answered with a 2xx status.  fetched is how the request ends: "ok"   *)
(* (2xx), "status" (any other status) or "rejected".                       *)
(***************************************************************************)
FetchOutcomes == {"ok", "status", "rejected"}

\* checkUrlAccessible without its outer try/catch.
checkUrlAccessibleNoCatch(u, fetched) ==
  IF u = "malformed" THEN [threw |-> FALSE, ok |-> FALSE]
  ELSE IF fetched = "rejected" THEN [threw |-> TRUE, ok |-> FALSE]
  ELSE [threw |-> FALSE, ok |-> fetched = "ok"]

checkUrlAccessible(u, fetched) ==
  IF u = "malformed" THEN [threw |-> FALSE, ok |-> FALSE]
  ELSE IF fetched = "rejected" THEN [threw |-> FALSE, ok |-> FALSE]
  ELSE [threw |-> FALSE, ok |-> fetched = "ok"]

(***************************************************************************)
(* takeScrollScreenshots.                                                  *)
(***************************************************************************)
\* The identifiers bound in the body of takeScrollScreenshots: its
\* parameters, its locals and the import of the module.
ScrollScope ==
  {"page", "options", "scrollStep", "waitTime", "browser", "context", "chromium"}
Bound(name) == name \in ScrollScope

maxScrollAttempts == 100

\* The while loop; growth is what the page height gains at each scroll.
RECURSIVE ScrollLoop(_, _, _, _, _, _, _)
ScrollLoop(currentScroll, previousHeight, scrollAttempts, pageHeight, shots, scrollStep, growth) ==
  IF currentScroll < pageHeight /\ scrollAttempts < maxScrollAttempts
  THEN LET taken == Append(shots, [scrollPosition |-> currentScroll,
                                   screenshot |-> "base64"])
           newPageHeight == pageHeight + growth
           height == IF newPageHeight > pageHeight THEN newPageHeight ELSE pageHeight
           next == currentScroll + scrollStep
       IN  IF next = previousHeight
           THEN [shots |-> taken, pageHeight |-> height]
           ELSE ScrollLoop(next, next, scrollAttempts + 1, height, taken,
                           scrollStep, growth)
  ELSE [shots |-> shots, pageHeight |-> pageHeight]

\* How the promise settles. new URL(url) reads an identifier the function
\* does not bind: the ReferenceError is caught and rethrown as "Invalid URL
\* format", whatever was passed; launch reads headless in the same way.
takeScrollScreenshots(valid, scrollStep, pageHeight, growth) ==
  IF ~Bound("url") \/ ~valid
  THEN [state |-> "rejected", error |-> "Invalid URL format"]
  ELSE IF ~Bound("headless")
       THEN [state |-> "rejected", error |-> "headless is not defined"]
       ELSE LET l == ScrollLoop(0, 0, 0, pageHeight, <<>>, scrollStep, growth)
            IN  [state |-> "resolved",
                 screenshots |-> Append(l.shots, [scrollPosition |-> l.pageHeight,
                                                  screenshot |-> "base64"])]

(***************************************************************************)
(* The request handlers scanWebsite, analyzeUrl and analyzeUrlStream, and  *)
(* the call of takeScrollScreenshots by the test script, step by step. The *)
(* probes of testInteractiveElements run inside analyzeUrl and             *)
(* analyzeUrlStream as the actions above.                                  *)
(***************************************************************************)
HttpHandlers == {"scanWebsite", "analyzeUrl", "analyzeUrlStream"}
Handlers == HttpHandlers \cup {"takeScrollScreenshots"}
Urls == {"missing", "malformed", "unreachable", "ok"}

\* The pages a handler is run on.
HandlerPages == {pg \in BatchPages : Len(pg) <= MaxHandlerElems}

\* sendSSE(res, event, data)
sendSSE(evs, event) == Append(evs, event)

\* A response finished twice.
EndTwice(n) == n + 2

\* res.end(), or res.status(code).json(body): the response is finished.
End(n) == n + 1

\* A catch block that leaves the browser alone.
CloseNever(b, n) == n

\* if (browser) { await browser.close().catch(() => {}); }
CloseIfLaunched(b, n) == IF b # NoBrowser THEN n + 1 ELSE n

\* A prober that rejects when an entry carries an error.
TestsOutcomeRejecting(out) ==
  IF \E b \in Buckets : \E i \in 1..Len(out[b]) : out[b][i].testResults.error # NoError
  THEN "rejected" ELSE "resolved"

\* How the promise of testInteractiveElements settles: every probe has its
\* own try/catch and returns an entry, so Promise.all resolves.
TestsOutcome(out) == "resolved"

InitHandler ==
  /\ HeadIdle
  /\ ClientIdle
  /\ FinderIdle
  /\ handler \in Handlers
  /\ url \in IF handler = "takeScrollScreenshots" THEN {"ok"} ELSE Urls
  /\ hpc = "start"
  /\ browser = NoBrowser
  /\ launched = FALSE
  /\ closeCalls = 0
  /\ events = <<>>
  /\ ended = 0
  /\ status = 0
  /\ failures = <<>>
  /\ llm = NoCall
  /\ settled = Pending
  /\ page \in IF handler \in {"analyzeUrl", "analyzeUrlStream"} /\ url = "ok"
              THEN HandlerPages ELSE {<<>>}
  /\ checked \in {c \in [1..Len(page) -> BOOLEAN] :
                    \A i \in 1..Len(page) : c[i] => IsCheckbox(page[i])}
  /\ value \in {v \in [1..Len(page) -> {<<>>, <<"x">>}] :
                  \A i \in 1..Len(page) : v[i] # <<>> => IsPlainInput(page[i])}
  /\ selected = [i \in 1..Len(page) |-> <<>>]
  /\ checked0 = checked
  /\ value0 = value
  /\ bodyAnalysis = NoDescriptors
  /\ tpc = <<>>
  /\ probe = <<>>
  /\ results = <<>>
  /\ completed = <<>>
  /\ bfaults = 0
  /\ output = NoDescriptors
  /\ phase = "idle"

\* An awaited step rejected: control passes to the catch block.
Fail(step) ==
  /\ failures' = Append(failures, step)
  /\ hpc' = "catch"

\* The handler replies and returns: an error event and res.end() on the
\* stream, res.status(code).json(...) otherwise.
Reply(code) ==
  /\ IF handler = "analyzeUrlStream"
     THEN events' = sendSSE(events, "error") /\ UNCHANGED status
     ELSE status' = code /\ UNCHANGED events
  /\ ended' = End(ended)
  /\ hpc' = "finished"

\* if (!url) ...; try { new URL(url) } catch { ... } (not in scanWebsite)
CheckUrl ==
  /\ handler \in HttpHandlers
  /\ hpc = "start"
  /\ IF url = "missing" \/ (url = "malformed" /\ handler # "scanWebsite")
     THEN Reply(400)
     ELSE /\ hpc' = IF handler = "scanWebsite" THEN "checkUrlAccessible" ELSE "launch"
          /\ events' = IF handler = "analyzeUrlStream"
                       THEN sendSSE(events, "status") ELSE events
          /\ UNCHANGED <<status, ended>>
  /\ UNCHANGED <<page, finderVars, batchVars, handler, url, browser, launched,
                 closeCalls, failures, llm, settled>>
  /\ UNCHANGED <<headVars, clientVars>>

\* const validation = await checkUrlAccessible(url); if (!validation.ok) ...
CheckAccessible ==
  /\ handler = "scanWebsite"
  /\ hpc = "checkUrlAccessible"
  /\ \E fetched \in IF url = "ok" THEN FetchOutcomes ELSE FetchOutcomes \ {"ok"} :
       LET validation == checkUrlAccessible(url, fetched)
       IN  IF validation.threw
           THEN Fail("checkUrlAccessible") /\ UNCHANGED <<events, status, ended>>
           ELSE /\ IF ~validation.ok
                   THEN Reply(400)
                   ELSE hpc' = "launch" /\ UNCHANGED <<events, status, ended>>
                /\ UNCHANGED failures
  /\ UNCHANGED <<page, finderVars, batchVars, handler, url, browser, launched,
                 closeCalls, llm, settled>>
  /\ UNCHANGED <<headVars, clientVars>>

\* browser = await chromium.launch(...)
Launch ==
  /\ handler \in HttpHandlers
  /\ hpc = "launch"
  /\ \E ok \in BOOLEAN :
       IF ok
       THEN /\ browser' = "launched"
            /\ launched' = TRUE
            /\ hpc' = "setup"
            /\ UNCHANGED failures
       ELSE Fail("launch") /\ UNCHANGED <<browser, launched>>
  /\ UNCHANGED <<page, finderVars, batchVars, handler, url, closeCalls, events,
                 ended, status, llm, settled>>
  /\ UNCHANGED <<headVars, clientVars>>

\* newContext, newPage, page.route, the listeners
SetUp ==
  /\ handler \in HttpHandlers
  /\ hpc = "setup"
  /\ \E ok \in BOOLEAN :
       IF ok
       THEN /\ hpc' = "goto"
            /\ events' = IF handler = "analyzeUrlStream"
                         THEN sendSSE(events, "status") ELSE events
            /\ UNCHANGED failures
       ELSE Fail("setup") /\ UNCHANGED events
  /\ UNCHANGED <<page, finderVars, batchVars, handler, url, browser, launched,
                 closeCalls, ended, status, llm, settled>>
  /\ UNCHANGED <<headVars, clientVars>>

\* await page.goto(url, ...) and the waits after it
Navigate ==
  /\ handler \in HttpHandlers
  /\ hpc = "goto"
  /\ \E ok \in BOOLEAN :
       /\ ok => url = "ok"
       /\ IF ok
          THEN /\ hpc' = IF handler = "scanWebsite" THEN "capture" ELSE "verify"
               /\ UNCHANGED failures
          ELSE Fail("goto")
  /\ UNCHANGED <<page, finderVars, batchVars, handler, url, browser, launched,
                 closeCalls, events, ended, status, llm, settled>>
  /\ UNCHANGED <<headVars, clientVars>>

\* scanWebsite: page.content() and page.screenshot(...)
Capture ==
  /\ handler = "scanWebsite"
  /\ hpc = "capture"
  /\ \E ok \in BOOLEAN :
       IF ok THEN hpc' = "close" /\ UNCHANGED failures ELSE Fail("capture")
  /\ UNCHANGED <<page, finderVars, batchVars, handler, url, browser, launched,
                 closeCalls, events, ended, status, llm, settled>>
  /\ UNCHANGED <<headVars, clientVars>>

\* hasHead, hasBody; on the stream the console and network events follow
VerifyLoaded ==
  /\ handler \in {"analyzeUrl", "analyzeUrlStream"}
  /\ hpc = "verify"
  /\ \E r \in {"loaded", "noHeadOrBody", "rejects"} :
       CASE r = "rejects" -> Fail("evaluate") /\ UNCHANGED events
         [] r = "noHeadOrBody" ->
              /\ failures' = Append(failures, "structure")
              /\ hpc' = "closeInvalid"
              /\ UNCHANGED events
         [] r = "loaded" ->
              /\ hpc' = IF handler = "analyzeUrlStream" THEN "head" ELSE "body"
              /\ events' = IF handler = "analyzeUrlStream"
                           THEN events \o <<"console", "network", "status">>
                           ELSE events
              /\ UNCHANGED failures
  /\ UNCHANGED <<page, finderVars, batchVars, handler, url, browser, launched,
                 closeCalls, ended, status, llm, settled>>
  /\ UNCHANGED <<headVars, clientVars>>

\* if (!hasHead || !hasBody) { await browser.close(); ...; return }
CloseInvalid ==
  /\ hpc = "closeInvalid"
  /\ closeCalls' = closeCalls + 1
  /\ \E ok \in BOOLEAN :
       IF ok
       THEN Reply(500) /\ UNCHANGED failures
       ELSE Fail("close") /\ UNCHANGED <<events, status, ended>>
  /\ UNCHANGED <<page, finderVars, batchVars, handler, url, browser, launched,
                 llm, settled>>
  /\ UNCHANGED <<headVars, clientVars>>

\* analyzeUrlStream: const headAnalysis = await analyzeHead(page, url)
AnalyzeHead ==
  /\ handler = "analyzeUrlStream"
  /\ hpc = "head"
  /\ \E ok \in BOOLEAN :
       IF ok
       THEN /\ events' = events \o <<"head", "status">>
            /\ hpc' = "body"
            /\ UNCHANGED failures
       ELSE Fail("analyzeHead") /\ UNCHANGED events
  /\ UNCHANGED <<page, finderVars, batchVars, handler, url, browser, launched,
                 closeCalls, ended, status, llm, settled>>
  /\ UNCHANGED <<headVars, clientVars>>

\* const bodyAnalysis = await analyzeBody(page) (in analyzeUrl together with
\* analyzeHead, under Promise.all), then the call of testInteractiveElements,
\* which starts every probe. An element may leave the page once the
\* descriptors are taken.
AnalyzeBody ==
  /\ handler \in {"analyzeUrl", "analyzeUrlStream"}
  /\ hpc = "body"
  /\ \E ok \in BOOLEAN, k \in 0..MaxHandlerElems :
       IF ok
       THEN /\ k <= Len(page)
            /\ bodyAnalysis' = analyzeBody(page)
            /\ page' = IF k = 0 THEN page ELSE DropAt(page, k)
            /\ checked' = IF k = 0 THEN checked ELSE DropAt(checked, k)
            /\ value' = IF k = 0 THEN value ELSE DropAt(value, k)
            /\ selected' = IF k = 0 THEN selected ELSE DropAt(selected, k)
            /\ checked0' = checked'
            /\ value0' = value'
            /\ tpc' = [t \in TasksOf(bodyAnalysis') |-> "find"]
            /\ probe' = [t \in TasksOf(bodyAnalysis') |-> NoProbe]
            /\ results' = [t \in TasksOf(bodyAnalysis') |-> <<>>]
            /\ phase' = "running"
            /\ events' = IF handler = "analyzeUrlStream"
                         THEN sendSSE(events, "status") ELSE events
            /\ hpc' = "test"
            /\ UNCHANGED failures
       ELSE /\ k = 0
            /\ Fail("analyze")
            /\ UNCHANGED <<page, bodyAnalysis, checked, value, selected, checked0,
                           value0, tpc, probe, results, phase, events>>
  /\ UNCHANGED <<finderVars, completed, bfaults, output, handler, url, browser,
                 launched, closeCalls, ended, status, llm, settled>>
  /\ UNCHANGED <<headVars, clientVars>>

\* const testResults = await testInteractiveElements(page, bodyAnalysis); on
\* the stream the body and complete events follow
AwaitTests ==
  /\ handler \in {"analyzeUrl", "analyzeUrlStream"}
  /\ hpc = "test"
  /\ phase = "returned"
  /\ IF TestsOutcome(output) = "rejected"
     THEN hpc' = "catch" /\ UNCHANGED events
     ELSE /\ hpc' = "close"
          /\ events' = IF handler = "analyzeUrlStream"
                       THEN events \o <<"body", "complete">> ELSE events
  /\ UNCHANGED <<page, finderVars, batchVars, handler, url, browser, launched,
                 closeCalls, ended, status, failures, llm, settled>>
  /\ UNCHANGED <<headVars, clientVars>>

\* await browser.close(); browser = null (scanWebsite keeps the reference)
CloseBrowser ==
  /\ handler \in HttpHandlers
  /\ hpc = "close"
  /\ closeCalls' = closeCalls + 1
  /\ \E ok \in BOOLEAN :
       IF ok
       THEN /\ browser' = IF handler = "scanWebsite" THEN browser ELSE NoBrowser
            /\ hpc' = IF handler = "scanWebsite" THEN "llm" ELSE "respond"
            /\ UNCHANGED failures
       ELSE Fail("close") /\ UNCHANGED browser
  /\ UNCHANGED <<page, finderVars, batchVars, handler, url, launched, events,
                 ended, status, llm, settled>>
  /\ UNCHANGED <<headVars, clientVars>>

\* scanWebsite: const llmResult = await analyzeScanData({...})
CallLLM ==
  /\ handler = "scanWebsite"
  /\ hpc = "llm"
  /\ \E key \in BOOLEAN, request \in {"resolves", "rejects"}, completion \in Completions :
       LET r == analyzeScanData(key, request, completion)
       IN  /\ llm' = [called |-> TRUE, key |-> key, request |-> request,
                      completion |-> completion, result |-> r]
           /\ IF r.state = "threw"
              THEN Fail("analyzeScanData")
              ELSE hpc' = "respond" /\ UNCHANGED failures
  /\ UNCHANGED <<page, finderVars, batchVars, handler, url, browser, launched,
                 closeCalls, events, ended, status, settled>>
  /\ UNCHANGED <<headVars, clientVars>>

\* return res.status(200).json({...}); on the stream, res.end()
Respond ==
  /\ handler \in HttpHandlers
  /\ hpc = "respond"
  /\ status' = IF handler = "analyzeUrlStream" THEN status ELSE 200
  /\ ended' = End(ended)
  /\ hpc' = "finished"
  /\ UNCHANGED <<page, finderVars, batchVars, handler, url, browser, launched,
                 closeCalls, events, failures, llm, settled>>
  /\ UNCHANGED <<headVars, clientVars>>

\* catch (error) { if (browser) { await browser.close().catch(() => {}) } ... }:
\* status 500, or the error event, after which the stream goes on to res.end()
Catch ==
  /\ handler \in HttpHandlers
  /\ hpc = "catch"
  /\ closeCalls' = CloseIfLaunched(browser, closeCalls)
  /\ IF handler = "analyzeUrlStream"
     THEN /\ events' = sendSSE(events, "error")
          /\ hpc' = "respond"
          /\ UNCHANGED <<status, ended>>
     ELSE /\ status' = 500
          /\ ended' = End(ended)
          /\ hpc' = "finished"
          /\ UNCHANGED events
  /\ UNCHANGED <<page, finderVars, batchVars, handler, url, browser, launched,
                 failures, llm, settled>>
  /\ UNCHANGED <<headVars, clientVars>>

\* const screenshots = await takeScrollScreenshots(url, { scrollStep: 500,
\* waitTime: 500, headless: true }), on a page of some height that may grow
TakeScrollScreenshots ==
  /\ handler = "takeScrollScreenshots"
  /\ hpc = "start"
  /\ \E pageHeight \in {0, 768, 1200}, growth \in {0, 500} :
       settled' = takeScrollScreenshots(url = "ok", 500, pageHeight, growth)
  /\ hpc' = "finished"
  /\ UNCHANGED <<page, finderVars, batchVars, handler, url, browser, launched,
                 closeCalls, events, ended, status, failures, llm>>
  /\ UNCHANGED <<headVars, clientVars>>

NextHandler ==
  \/ CheckUrl
  \/ CheckAccessible
  \/ Launch
  \/ SetUp
  \/ Navigate
  \/ Capture
  \/ VerifyLoaded
  \/ CloseInvalid
  \/ AnalyzeHead
  \/ AnalyzeBody
  \/ \E t \in Tasks : Find(t)
  \/ \E t \in Tasks : Props(t)
  \/ \E t \in Tasks : Fill(t)
  \/ \E t \in Tasks : Clear(t)
  \/ \E t \in Tasks : SelectOption(t)
  \/ \E t \in Tasks : IsChecked(t)
  \/ \E t \in Tasks : Click(t)
  \/ \E t \in Tasks : IsNowChecked(t)
  \/ \E t \in Tasks : Restore(t)
  \/ Finish
  \/ AwaitTests
  \/ CloseBrowser
  \/ CallLLM
  \/ Respond
  \/ Catch
  \/ TakeScrollScreenshots

SpecHandler == InitHandler /\ [][NextHandler]_vars

(***************************************************************************)
(* analyzeHead, the summary of the meta tags.  A meta tag is the record of *)
(* its attributes ("" for a missing one, which getAttribute(...) || null   *)
(* treats as an empty one); of an entry of metaSummary.important the       *)
(* fields nameOrProperty, contentOrValue and present are kept.             *)
(***************************************************************************)
MaxMetas == 2

Meta == [name |-> "", property |-> "", httpEquiv |-> "", content |-> "", charset |-> ""]

MetaPool ==
  { [Meta EXCEPT !.name = "description", !.content = "d"],
    [Meta EXCEPT !.name = "Viewport", !.content = "w"],
    [Meta EXCEPT !.name = "charset", !.content = "x"],
    [Meta EXCEPT !.charset = "utf-8"],
    [Meta EXCEPT !.httpEquiv = "Content-Type", !.content = "text/html"],
    [Meta EXCEPT !.property = "og:title", !.content = "t"] }

Heads == UNION {[1..n -> MetaPool] : n \in 0..MaxMetas}

\* String.prototype.toLowerCase on the names above.
toLowerCase(str) == IF str = "Viewport" THEN "viewport" ELSE str

\* a || b on attribute values
Or(a, b) == IF a # "" THEN a ELSE b

importantMetaNames == <<"description", "viewport", "charset">>

\* The entry of a meta tag in headData.metaTags.
MetaInfo(meta) ==
  [nameOrProperty |-> Or(meta.name, Or(meta.property, meta.httpEquiv)),
   contentOrValue |-> Or(meta.content, meta.charset),
   charset |-> meta.charset, httpEquiv |-> meta.httpEquiv]

Important(name, content, present) ==
  [nameOrProperty |-> name, contentOrValue |-> content, present |-> present]

\* headData.metaTags.some(meta => meta.charset || meta.httpEquiv === 'Content-Type')
hasCharset(metaTags) ==
  \E i \in 1..Len(metaTags) :
    MetaInfo(metaTags[i]).charset # "" \/ MetaInfo(metaTags[i]).httpEquiv = "Content-Type"

\* importantMetaNames.forEach: an entry with present: false for each name
\* that no entry carries yet.
RECURSIVE Ensure(_, _)
Ensure(important, k) ==
  IF k > Len(importantMetaNames) THEN important
  ELSE LET name == importantMetaNames[k]
           isThere == \E i \in 1..Len(important) :
                        toLowerCase(important[i].nameOrProperty) = toLowerCase(name)
       IN  Ensure(IF isThere THEN important
                  ELSE Append(important, Important(name, "", FALSE)), k + 1)

InitHead ==
  /\ FinderIdle
  /\ BatchIdle
  /\ HandlerIdle
  /\ ClientIdle
  /\ page = <<>>
  /\ head \in Heads
  /\ mpc = "metas"
  /\ analysis = [important |-> <<>>, all |-> <<>>]

\* One turn of headData.metaTags.forEach
ProcessMeta ==
  /\ mpc = "metas"
  /\ Len(analysis.all) < Len(head)
  /\ LET meta == MetaInfo(head[Len(analysis.all) + 1])
     IN  analysis' =
           [all |-> Append(analysis.all, meta),
            important |->
              IF /\ meta.nameOrProperty # ""
                 /\ \E k \in 1..Len(importantMetaNames) :
                      importantMetaNames[k] = toLowerCase(meta.nameOrProperty)
              THEN Append(analysis.important,
                          Important(meta.nameOrProperty, meta.contentOrValue, TRUE))
              ELSE analysis.important]
  /\ UNCHANGED mpc
  /\ UNCHANGED <<page, finderVars, batchVars, handlerVars, clientVars, head>>

\* if (!hasCharset) { important.push({ nameOrProperty: 'charset', ..., present: false }) }
CheckCharset ==
  /\ mpc = "metas"
  /\ Len(analysis.all) = Len(head)
  /\ analysis' =
       [analysis EXCEPT !.important =
          IF ~hasCharset(head)
          THEN Append(@, Important("charset", "", FALSE)) ELSE @]
  /\ mpc' = "ensure"
  /\ UNCHANGED <<page, finderVars, batchVars, handlerVars, clientVars, head>>

\* Ensure all important meta tags are checked
EnsureImportant ==
  /\ mpc = "ensure"
  /\ analysis' = [analysis EXCEPT !.important = Ensure(@, 1)]
  /\ mpc' = "done"
  /\ UNCHANGED <<page, finderVars, batchVars, handlerVars, clientVars, head>>

NextHead ==
  \/ ProcessMeta
  \/ CheckCharset
  \/ EnsureImportant

SpecHead == InitHead /\ [][NextHead]_vars

(***************************************************************************)
(* analyzeUrlStream of the client (services/api.js): the reader of the     *)
(* event stream.  The response is the sequence of characters sendSSE       *)
(* wrote; the fixed texts 'event: ' and 'data: ' are one character each,   *)
(* the JSON text of the data of event e is { e }.                          *)
(***************************************************************************)
MaxEvents == 2

EventNames == {"head", "complete"}

\* res.write(`event: ${event}\n`); res.write(`data: ${JSON.stringify(data)}\n\n`)
Wire(event) == <<"event: ", event, "\n", "data: ", "{", event, "}", "\n", "\n">>

RECURSIVE WireAll(_)
WireAll(evs) == IF evs = <<>> THEN <<>> ELSE Wire(Head(evs)) \o WireAll(Tail(evs))

\* text.split('\n')
RECURSIVE Split(_, _)
Split(text, cur) ==
  IF text = <<>> THEN <<cur>>
  ELSE IF Head(text) = "\n" THEN <<cur>> \o Split(Tail(text), <<>>)
       ELSE Split(Tail(text), Append(cur, Head(text)))

\* JSON.parse of a data line: the value, or a SyntaxError.
JSONparse(text) ==
  IF Len(text) = 3 /\ text[1] = "{" /\ text[3] = "}"
  THEN [ok |-> TRUE, data |-> text[2]] ELSE [ok |-> FALSE, data |-> ""]

\* The for loop over the lines of one read: currentEvent and currentData
\* start anew with every read.  last: the loop after the last read, where a
\* blank line with no data does not reset them.
RECURSIVE ParseLines(_, _, _, _, _)
ParseLines(lines, currentEvent, currentData, out, last) ==
  IF lines = <<>> THEN out
  ELSE LET line == Head(lines)
           rest == Tail(lines)
       IN  IF line # <<>> /\ Head(line) = "event: "
           THEN ParseLines(rest, trim(Tail(line)), currentData, out, last)
           ELSE IF line # <<>> /\ Head(line) = "data: "
           THEN ParseLines(rest, currentEvent, trim(Tail(line)), out, last)
           ELSE IF line = <<>> /\ (currentData # <<>> \/ ~last)
           THEN LET parsed == JSONparse(currentData)
                IN  ParseLines(rest, <<"message">>, <<>>,
                               IF currentData # <<>> /\ parsed.ok
                               THEN Append(out, [type |-> currentEvent, data |-> parsed.data])
                               ELSE out, last)
           ELSE ParseLines(rest, currentEvent, currentData, out, last)

\* lines without its last element (lines.pop() takes it away)
Popped(lines) == SubSeq(lines, 1, Len(lines) - 1)

InitReader ==
  /\ FinderIdle
  /\ BatchIdle
  /\ HandlerIdle
  /\ HeadIdle
  /\ page = <<>>
  /\ sent \in UNION {[1..n -> EventNames] : n \in 1..MaxEvents}
  /\ stream = WireAll(sent)
  /\ buffer = <<>>
  /\ messages = <<>>
  /\ rpc = "reading"
  /\ ResultsIdle

\* const { done, value } = await reader.read() with done false: the next
\* chunk is whatever part of the response the network hands over.
Read ==
  /\ rpc = "reading"
  /\ stream # <<>>
  /\ \E n \in 1..Len(stream) :
       LET lines == Split(buffer \o SubSeq(stream, 1, n), <<>>)
       IN  /\ stream' = SubSeq(stream, n + 1, Len(stream))
           /\ buffer' = lines[Len(lines)]
           /\ messages' = messages \o ParseLines(Popped(lines), <<"message">>, <<>>, <<>>, FALSE)
  /\ UNCHANGED <<page, finderVars, batchVars, handlerVars, headVars, resultsVars, sent, rpc>>

\* read() with done true: break, then the remaining data in the buffer
ReadDone ==
  /\ rpc = "reading"
  /\ stream = <<>>
  /\ messages' = IF trim(buffer) # <<>>
                 THEN messages \o ParseLines(Split(buffer, <<>>), <<"message">>, <<>>, <<>>, TRUE)
                 ELSE messages
  /\ rpc' = "done"
  /\ UNCHANGED <<page, finderVars, batchVars, handlerVars, headVars, resultsVars,
                 sent, stream, buffer>>

NextReader ==
  \/ Read
  \/ ReadDone

SpecReader == InitReader /\ [][NextReader]_vars

(***************************************************************************)
(* The Results page of the client (pages/Results.jsx): the two effects     *)
(* that run when the url parameter changes, and the settling of the        *)
(* requests they start.  What a response holds for url u is tagged u.      *)
(***************************************************************************)
MaxInFlight == 4

PageUrls == {"a", "b"}

fallbackData == [screenshot |-> <<"shot", "sample">>, bugs |-> << <<"bug", "sample">> >>, fixes |-> << <<"fix", "sample">> >>]

\* response.data of GET /api/scan?url=u
Payloads(u) == [screenshot : {<<"shot", u>>, <<"null">>}, bugs : {<<>>, << <<"bug", u>> >>}, fixes : {<<>>, << <<"fix", u>> >>}]

\* response.data of GET /api/analyze-url?url=u
Analyses(u) == {<<"dom", u>>, <<"null">>}

Without(reqs, i) == SubSeq(reqs, 1, i - 1) \o SubSeq(reqs, i + 1, Len(reqs))

InitResults ==
  /\ FinderIdle
  /\ BatchIdle
  /\ HandlerIdle
  /\ HeadIdle
  /\ ReaderIdle
  /\ ResultsIdle
  /\ page = <<>>

\* The url parameter becomes u: both effects run, each up to its await.
UrlEffects(u) ==
  /\ u # urlParam
  /\ Len(requests) + 2 <= MaxInFlight
  /\ urlParam' = u
  /\ loading' = TRUE
  /\ error' = ""
  /\ domLoading' = TRUE
  /\ domError' = ""
  /\ requests' = requests \o <<[api |-> "scan", url |-> u], [api |-> "analyze", url |-> u]>>
  /\ UNCHANGED <<page, finderVars, batchVars, handlerVars, headVars, readerVars, data, domAnalysis>>

\* scanWebsite(url) resolves: the rest of the try block of fetchData, finally
ScanResolves(i, payload) ==
  /\ i \in 1..Len(requests)
  /\ requests[i].api = "scan"
  /\ payload \in Payloads(requests[i].url)
  /\ data' = [screenshot |-> IF payload.screenshot # <<"null">> THEN payload.screenshot
                               ELSE fallbackData.screenshot,
              bugs |-> IF Len(payload.bugs) # 0 THEN payload.bugs ELSE fallbackData.bugs,
              fixes |-> IF Len(payload.fixes) # 0 THEN payload.fixes ELSE fallbackData.fixes]
  /\ loading' = FALSE
  /\ requests' = Without(requests, i)
  /\ UNCHANGED <<page, finderVars, batchVars, handlerVars, headVars, readerVars,
                 urlParam, error, domAnalysis, domLoading, domError>>

\* scanWebsite(url) rejects: catch, finally
ScanRejects(i) ==
  /\ i \in 1..Len(requests)
  /\ requests[i].api = "scan"
  /\ error' = "Unable to scan website. Showing sample results."
  /\ data' = fallbackData
  /\ loading' = FALSE
  /\ requests' = Without(requests, i)
  /\ UNCHANGED <<page, finderVars, batchVars, handlerVars, headVars, readerVars,
                 urlParam, domAnalysis, domLoading, domError>>

\* analyzeUrl(url) resolves: setDomAnalysis(response?.data || null), finally
AnalyzeResolves(i, analysed) ==
  /\ i \in 1..Len(requests)
  /\ requests[i].api = "analyze"
  /\ analysed \in Analyses(requests[i].url)
  /\ domAnalysis' = analysed
  /\ domLoading' = FALSE
  /\ requests' = Without(requests, i)
  /\ UNCHANGED <<page, finderVars, batchVars, handlerVars, headVars, readerVars,
                 urlParam, data, loading, error, domError>>

\* analyzeUrl(url) rejects: catch, finally
AnalyzeRejects(i) ==
  /\ i \in 1..Len(requests)
  /\ requests[i].api = "analyze"
  /\ domError' = "Unable to analyze DOM structure."
  /\ domAnalysis' = <<"null">>
  /\ domLoading' = FALSE
  /\ requests' = Without(requests, i)
  /\ UNCHANGED <<page, finderVars, batchVars, handlerVars, headVars, readerVars,
                 urlParam, data, loading, error>>

NextResults ==
  \/ \E u \in PageUrls : UrlEffects(u)
  \/ \E i \in 1..MaxInFlight : \E u \in PageUrls : \E payload \in Payloads(u) : ScanResolves(i, payload)
  \/ \E i \in 1..MaxInFlight : ScanRejects(i)
  \/ \E i \in 1..MaxInFlight : \E u \in PageUrls : \E analysed \in Analyses(u) : AnalyzeResolves(i, analysed)
  \/ \E i \in 1..MaxInFlight : AnalyzeRejects(i)

SpecResults == InitResults /\ [][NextResults]_vars

(***************************************************************************)
(* Properties of findElementWithMultipleStrategies (SpecFind).             *)
(***************************************************************************)
\* The outcome strategy k had, or would have had, under the fault it met.
OutcomeOf(k) == RunStrategy(k, page, elementInfo, elementType, faults[k])
Succeeding == {k \in Strategies : OutcomeOf(k).element # NoElement}
Lowest(S) == CHOOSE k \in S : \A j \in S : k <= j
UsedStrategy == StrategyOf(found.selector)

\* C1: the strategies are tried in the order 1..8 and the call stops at the
\* first one that finds an element: the result is the outcome of the lowest
\* strategy whose lookup finds an element, its selector names that strategy,
\* and the lookups issued are exactly those of the applicable strategies up
\* to it (none after the success).
C1_FirstSuccessWins ==
  fpc = "returned" =>
    IF Succeeding = {}
    THEN /\ found = Miss
         /\ issued = {j \in Strategies : Applicable(j, elementInfo, elementType)}
    ELSE LET k == Lowest(Succeeding)
         IN  /\ found = OutcomeOf(k)
             /\ UsedStrategy = k
             /\ Applicable(k, elementInfo, elementType)
             /\ issued = {j \in 1..k : Applicable(j, elementInfo, elementType)}

\* A call that returned the element of one strategy although a later
\* strategy, never looked up, would have found an element too.
C1_Witness ==
  /\ fpc = "returned"
  /\ found.element # NoElement
  /\ UsedStrategy > 1
  /\ \E j \in Succeeding : j > UsedStrategy /\ j \notin issued

\* C2: a descriptor with an id, on a page holding exactly one element with
\* that id, is resolved by strategy 1 to that element and no later lookup
\* is issued, whatever characters the id contains.
C2_IdResolvesByStrategy1 ==
  ( /\ fpc = "returned"
    /\ faults = NoFaults
    /\ elementInfo.id # Absent
    /\ Cardinality({i \in 1..Len(page) : page[i].id = elementInfo.id}) = 1 )
  => /\ found.element # NoElement
     /\ page[found.element].id = elementInfo.id
     /\ UsedStrategy = 1
     /\ issued = {1}

\* C3: the returned element is null if and only if the returned selector
\* is null.
C3_NullElementIffNullSelector ==
  fpc = "returned" => (found.element = NoElement <=> found.selector = NullSelector)

\* A call that returned an element found by the positional strategy.
C3_Witness ==
  /\ fpc = "returned"
  /\ found.element # NoElement
  /\ found.selector # NullSelector
  /\ UsedStrategy = LastStrategy

LabelsMatching ==
  {i \in 1..Len(page) : /\ page[i].tag = "label" /\ page[i].text # Absent
                        /\ Contains(page[i].text, trim(elementInfo.labelText))}
ControlledBy(i) ==
  {j \in 1..Len(page) : \/ page[i].for # Absent /\ page[j].id = page[i].for
                        \/ page[j].tag = "input" /\ page[j].parent = page[i].key}
EarlierMatched(k) == \E j \in 1..(k - 1) : OutcomeOf(j).element # NoElement

\* C21: for an input or checkbox descriptor whose labelText matches a label
\* of the page that controls an element (its for attribute names an
\* existing element, or an input is nested inside it), and for which none of
\* the strategies 1..6 matched, the call returns by strategy 7 an element
\* controlled by a matching label.
C21_LabelResolvesControlledInput ==
  ( /\ fpc = "returned"
    /\ faults = NoFaults
    /\ Applicable(7, elementInfo, elementType)
    /\ ~EarlierMatched(7)
    /\ \E i \in LabelsMatching : ControlledBy(i) # {} )
  => /\ UsedStrategy = 7
     /\ \E i \in LabelsMatching : found.element \in ControlledBy(i)

\* C22: for a button descriptor with text for which no earlier strategy
\* matched, when the plain-text lookup of strategy 3 failed (it threw or its
\* promise rejected) and the role lookup finds a button, the call returns
\* that button with a 'role=button' selector.
C22_RoleLookupAfterTextFailure ==
  ( /\ fpc = "returned"
    /\ faults[3] \in {"throw", "reject"}
    /\ ~EarlierMatched(3)
    /\ GetByRole(page, trim(elementInfo.text)) # NoElement )
  => /\ found.element = GetByRole(page, trim(elementInfo.text))
     /\ Head(found.selector) = "role=button, name=\""

\* C25: the element a call returns is of the kind asked for.
C25_KindConsistency ==
  (fpc = "returned" /\ found.element # NoElement)
  => StrictKind(page[found.element], elementType)

(***************************************************************************)
(* Properties of analyzeHead (SpecHead).                                   *)
(***************************************************************************)
\* C28: when analyzeHead has summarised the meta tags, metaSummary.important
\* holds an entry charset with present: false exactly if no meta tag of the
\* head has a charset attribute or http-equiv="Content-Type", and it holds
\* an entry for each of description, viewport and charset.
C28_CharsetMissingIffAbsent ==
  mpc = "done" =>
    /\ ( \E i \in 1..Len(analysis.important) :
           /\ analysis.important[i].nameOrProperty = "charset"
           /\ ~analysis.important[i].present )
       <=> ~\E k \in 1..Len(head) :
              head[k].charset # "" \/ head[k].httpEquiv = "Content-Type"
    /\ \A n \in 1..Len(importantMetaNames) :
         \E i \in 1..Len(analysis.important) :
           toLowerCase(analysis.important[i].nameOrProperty) = importantMetaNames[n]

(***************************************************************************)
(* Properties of the reader of the event stream (SpecReader).              *)
(***************************************************************************)
\* What onMessage receives when the whole response arrives in one read.
Unsplit(evs) == ParseLines(Popped(Split(WireAll(evs), <<>>)), <<"message">>, <<>>, <<>>, FALSE)

\* C27: however the response was split into reads, when the reader is done
\* onMessage has received the messages it receives for the unsplit
\* response: one for each event the server sent, in order, its type the
\* name of the event.
C27_ReaderIndependentOfChunking ==
  rpc = "done" =>
    /\ messages = Unsplit(sent)
    /\ Len(messages) = Len(sent)
    /\ \A i \in 1..Len(sent) : messages[i].type = <<sent[i]>>

(***************************************************************************)
(* Properties of the Results page (SpecResults).                           *)
(***************************************************************************)
\* The urls whose responses are on display.
Shown ==
  {data.bugs[k][2] : k \in 1..Len(data.bugs)} \cup {data.fixes[k][2] : k \in 1..Len(data.fixes)}
    \cup (IF Len(data.screenshot) = 2 THEN {data.screenshot[2]} ELSE {})
    \cup (IF Len(domAnalysis) = 2 THEN {domAnalysis[2]} ELSE {})

\* C29: once every request has settled, whatever the page shows of a
\* response is of the response for the current url parameter (or is the
\* sample data), in whatever order the responses arrived.
C29_ShowsCurrentUrl ==
  (urlParam # "null" /\ requests = <<>>) => Shown \subseteq {urlParam, "sample"}

\* C30: when scanWebsite resolves, the bugs and fixes on display are exactly
\* those of the response, empty lists included, and loading ends; when it
\* rejects, the sample data is on display with the error banner, and
\* loading ends.
C30_SampleOnlyOnFailure ==
  [][/\ \A i \in 1..MaxInFlight : \A u \in PageUrls : \A payload \in Payloads(u) :
          ScanResolves(i, payload) =>
            data'.bugs = payload.bugs /\ data'.fixes = payload.fixes /\ ~loading'
      /\ \A j \in 1..MaxInFlight :
          ScanRejects(j) => data' = fallbackData /\ error' # "" /\ ~loading']_vars

(***************************************************************************)
(* Properties of testInteractiveElements (Spec).                           *)
(***************************************************************************)
Returned == {t \in DOMAIN tpc : tpc[t] = "done"}
EntryOf(t) == results[t][1]
PositionIn(seq, x) == CHOOSE i \in 1..Len(seq) : seq[i] = x

\* No element of the page carries any of the signals of descriptor d.
NoSignalMatches(d, pg) ==
  \A i \in 1..Len(pg) :
    LET el == pg[i]
    IN  /\ d.id # Absent => el.id # d.id
        /\ d.name # Absent => el.name # d.name
        /\ d.text # Absent => ~(el.text # Absent /\ Contains(el.text, trim(d.text)))
        /\ d.placeholder # Absent => el.placeholder # d.placeholder
        /\ \A j \in 1..Len(d.dataAttributes), m \in 1..Len(el.data) :
             d.dataAttributes[j] # el.data[m]
        /\ \A j \in 1..Len(classes(d.class)), m \in 1..Len(classes(el.class)) :
             classes(d.class)[j] # classes(el.class)[m]
        /\ d.labelText # Absent => ~(el.text # Absent /\ Contains(el.text, trim(d.labelText)))

\* C4: a descriptor none of whose signals matches anything on the page is
\* resolved to element null and selector null, and its entry, produced by
\* the normal path and not by the catch block, has every flag false,
\* selector null and the "not found" error.
C4_NotFoundEntry ==
  \A t \in Returned :
    NoSignalMatches(DescOf(t), page) =>
      LET tr == EntryOf(t).testResults
      IN  /\ probe[t].element = NoElement
          /\ probe[t].selector = NullSelector
          /\ ~probe[t].threw
          /\ ~tr.visible /\ ~tr.enabled /\ ~tr.hasDimensions
          /\ ~Capability(KindOf(t[1]), tr)
          /\ tr.selector = NullSelector
          /\ tr.error = NotFoundMessage

\* A descriptor with a name that no element of the live page carries any
\* more has got its "not found" entry.
C4_Witness ==
  \E t \in Returned :
    /\ DescOf(t).name # Absent
    /\ NoSignalMatches(DescOf(t), page)
    /\ EntryOf(t).testResults.error = NotFoundMessage

\* C6: the capability flag of an entry is true only if its visible, enabled
\* and hasDimensions flags are true and the interaction did not throw;
\* selectable and toggleable imply clickable.
C6_CapabilityOnlyIfActionable ==
  \A t \in Returned :
    LET kind == KindOf(t[1])
        tr == EntryOf(t).testResults
    IN  /\ Capability(kind, tr) =>
             tr.visible /\ tr.enabled /\ tr.hasDimensions /\ ~probe[t].threw
        /\ kind \in {"select", "checkbox"} => (Capability(kind, tr) => tr.clickable)

\* An entry whose capability flag is true after an interaction, and an
\* entry with all three flags true whose interaction threw.
C6_Witness ==
  /\ \E t \in Returned :
       t[1] # "buttons" /\ Capability(KindOf(t[1]), EntryOf(t).testResults)
  /\ \E t \in Returned :
       LET tr == EntryOf(t).testResults
       IN  /\ probe[t].threw /\ tr.visible /\ tr.enabled /\ tr.hasDimensions
           /\ ~Capability(KindOf(t[1]), tr)

\* C7: after a probe that reports fillable = true the value of the input is
\* the value it held before the probe (stated for the batches in which no
\* Playwright call failed).
C7_FillRoundTrip ==
  \A t \in Returned :
    (bfaults = 0 /\ t[1] = "inputs" /\ EntryOf(t).testResults.fillable) =>
      value[probe[t].element] = value0[probe[t].element]

\* C8: for a checkbox probe that reports toggleable = true, the checked
\* state of the element when the probe ends is its checked state when the
\* probe read it first.
C8_ToggleRoundTrip ==
  \A t \in Returned :
    (t[1] = "checkboxes" /\ EntryOf(t).testResults.toggleable) =>
      probe[t].after = probe[t].before

\* C9: when the batch has completed (no Playwright call having failed), the
\* checked state of every checkbox is its state before the batch, for every
\* interleaving of the probes.
C9_CheckedStateRestored ==
  (phase = "returned" /\ bfaults = 0) => checked = checked0

\* C10: each bucket of the output has the length of its descriptor array
\* and its i-th entry is the entry of the probe of the i-th descriptor, in
\* whatever order the probes completed.
C10_BucketOrder ==
  phase = "returned" =>
    \A b \in Buckets :
      /\ Len(output[b]) = Len(bodyAnalysis[b])
      /\ \A i \in 1..Len(bodyAnalysis[b]) :
           /\ Fields(output[b][i]) = bodyAnalysis[b][i]
           /\ output[b][i] = EntryOf(<<b, i>>)

\* A batch in which a later descriptor of a bucket completed before an
\* earlier one with a different entry.
C10_Witness ==
  /\ phase = "returned"
  /\ \E b \in Buckets :
       \E i, j \in 1..Len(bodyAnalysis[b]) :
         /\ i < j
         /\ PositionIn(completed, <<b, j>>) < PositionIn(completed, <<b, i>>)
         /\ output[b][i] # output[b][j]

(***************************************************************************)
(* Properties of the calls a probe issues and of the errors it reports     *)
(* (Spec).                                                                 *)
(***************************************************************************)
\* The calls that act on the element; the others only read it.
Interactions == {"fill", "selectOption", "click"}
PropertyReads == {"isVisible", "isEnabled", "boundingBox"}

\* The probes whose interaction (fill, selectOption, click) threw.
InteractionThrew == {t \in Returned : probe[t].threw /\ probe[t].element # NoElement}

\* C11: every fill, selectOption and click a probe has issued, the
\* restoring fill('') and the restoring click included, carries a timeout
\* option of its own of at most a second, so that no call waits longer for
\* an element that does not respond.
C11_InteractionsCarryShortTimeout ==
  \A t \in DOMAIN probe :
    \A c \in probe[t].calls : c[1] \in Interactions => c[2] \in 1..1000

\* C12: a probe whose interaction threw reports its capability flag false
\* and an error string that is not null; an entry of a resolved element
\* whose interaction did not throw reports no error.
C12_InteractionFailureReported ==
  /\ \A t \in InteractionThrew :
       LET tr == EntryOf(t).testResults
       IN  ~Capability(KindOf(t[1]), tr) /\ tr.error # NoError
  /\ \A t \in Returned \ InteractionThrew :
       probe[t].element # NoElement => EntryOf(t).testResults.error = NoError

\* C13: the batch returns one entry per descriptor, and the entry of a
\* descriptor for which a property read or the interaction threw carries an
\* error string.
C13_OneEntryEachWithError ==
  phase = "returned" =>
    /\ \A b \in Buckets : Len(output[b]) = Len(bodyAnalysis[b])
    /\ \A t \in Returned :
         /\ Fields(output[t[1]][t[2]]) = DescOf(t)
         /\ (probe[t].threw \/ probe[t].readFailed) =>
              output[t[1]][t[2]].testResults.error # NoError

\* A step of a button probe leaves checked states, values and selections alone.
ButtonStepKeepsPage ==
  (\E t \in DOMAIN tpc : t[1] = "buttons" /\ tpc'[t] # tpc[t]) =>
    (checked' = checked /\ value' = value /\ selected' = selected)

\* The probe of a button has issued nothing but the three reads, and its
\* clickable flag is the conjunction of the three flags.
ButtonOnlyRead ==
  \A t \in DOMAIN probe :
    t[1] = "buttons" =>
      /\ \A c \in probe[t].calls : c[1] \in PropertyReads
      /\ t \in Returned =>
           LET tr == EntryOf(t).testResults
           IN  tr.clickable = (tr.visible /\ tr.enabled /\ tr.hasDimensions)

\* C19: the probe of a button descriptor issues nothing but the reads
\* isVisible, isEnabled and boundingBox on its element, none of its steps
\* changes a checked state, a value or a selection of the page, and its
\* clickable flag is visible AND enabled AND hasDimensions.
C19_ButtonsOnlyRead == []ButtonOnlyRead /\ [][ButtonStepKeepsPage]_vars

\* A button descriptor resolved, read and found clickable, in a batch that
\* probed a checkbox or an input as well.
C19_Witness ==
  /\ phase = "returned"
  /\ \E t \in DOMAIN probe : t[1] \in {"inputs", "checkboxes"}
  /\ \E t \in Returned :
       /\ t[1] = "buttons"
       /\ probe[t].element # NoElement
       /\ probe[t].calls # {}
       /\ EntryOf(t).testResults.clickable

EntriesExtendDescriptors ==
  phase = "returned" =>
    \A b \in Buckets :
      /\ Len(output[b]) = Len(bodyAnalysis[b])
      /\ \A i \in 1..Len(output[b]) :
           LET e == output[b][i]
               d == bodyAnalysis[b][i]
           IN  /\ DOMAIN e = DOMAIN d \cup {"testResults"}
               /\ "testResults" \notin DOMAIN d
               /\ \A f \in DOMAIN d : e[f] = d[f]
               /\ DOMAIN e.testResults = DOMAIN FailedResults(KindOf(b), NoError)

\* C23: every entry of the output has the fields of its descriptor with
\* their values and exactly one more, testResults, whose fields are those
\* of the kind of the bucket it is in; and no step of the batch changes the
\* descriptor arrays.
C23_EntriesSpreadDescriptors ==
  []EntriesExtendDescriptors /\ [][bodyAnalysis' = bodyAnalysis]_vars

\* A batch that returned entries of two kinds, one of them for a descriptor
\* that was not found.
C23_Witness ==
  /\ phase = "returned"
  /\ \E b, c \in Buckets :
       /\ b # c /\ output[b] # <<>> /\ output[c] # <<>>
       /\ output[b][1].testResults.error = NotFoundMessage
       /\ output[c][1].testResults.error = NoError

(***************************************************************************)
(* Properties of the handlers (SpecHandler).                               *)
(***************************************************************************)
\* The event was written to the stream.
Sent(e) == \E i \in 1..Len(events) : events[i] = e

\* The typed events of the stream, the status events left out.
TypedEvents == SelectSeq(events, LAMBDA e : e # "status")

\* Something went wrong for the element of the probe: a lookup, a property
\* read or the interaction failed, or no element was found.
ElementFailed(t) ==
  \/ probe[t].threw
  \/ probe[t].readFailed
  \/ EntryOf(t).testResults.error # NoError

\* C14: a request of analyzeUrl or analyzeUrlStream whose page loaded and in
\* which nothing failed but lookups, property reads and interactions on
\* elements ends with status 200, respectively with the events body and
\* complete and no error event, the per-element results being the output of
\* the prober.
C14_ElementFailuresNotSurfaced ==
  (/\ handler \in {"analyzeUrl", "analyzeUrlStream"}
   /\ hpc = "finished"
   /\ phase = "returned"
   /\ failures = <<>>)
  => /\ ended = 1
     /\ \A t \in DOMAIN tpc : output[t[1]][t[2]] = EntryOf(t)
     /\ handler = "analyzeUrl" => status = 200
     /\ handler = "analyzeUrlStream" =>
          Sent("body") /\ Sent("complete") /\ ~Sent("error")

\* A stream that completed although the interaction on its element threw.
C14_Witness ==
  /\ handler = "analyzeUrlStream"
  /\ hpc = "finished"
  /\ failures = <<>>
  /\ \E t \in Returned : probe[t].threw /\ ElementFailed(t)
  /\ Sent("complete")

\* C15: when a handler has finished and chromium.launch had succeeded,
\* browser.close() has been invoked.
C15_BrowserClosed ==
  (handler \in HttpHandlers /\ hpc = "finished" /\ launched) => closeCalls >= 1

\* A handler that finished through its catch block after the navigation
\* failed, with the browser closed.
C15_Witness ==
  /\ handler \in HttpHandlers
  /\ hpc = "finished"
  /\ launched
  /\ failures = <<"goto">>
  /\ closeCalls >= 1

\* C16: analyzeScanData always returns; when the key is missing, the request
\* fails or the completion is no JSON object, bugs, fixes and suggestions
\* are empty arrays; and scanWebsite, once the capture up to the closing of
\* the browser has succeeded and the LLM is called, responds 200.
C16_LLMFailureNotFatal ==
  llm.called =>
    /\ llm.result.state = "returned"
    /\ LLMFailed(llm.key, llm.request, llm.completion) =>
         /\ llm.result.bugs = EmptyArray
         /\ llm.result.fixes = EmptyArray
         /\ llm.result.suggestions = EmptyArray
    /\ (handler = "scanWebsite" /\ hpc = "finished") => status = 200

\* A scan that responded 200 although the LLM request failed.
C16_Witness ==
  /\ handler = "scanWebsite"
  /\ hpc = "finished"
  /\ llm.called
  /\ llm.key
  /\ llm.request = "rejects"
  /\ llm.result.bugs = EmptyArray
  /\ status = 200

\* C17: analyzeUrlStream never ends the response twice and has ended it once
\* when it finishes, on every path; on a run in which nothing failed its
\* typed events are console, network, head, body, complete in this order,
\* complete being the last event of all.
C17_StreamOrderAndSingleEnd ==
  handler = "analyzeUrlStream" =>
    /\ ended <= 1
    /\ hpc = "finished" => ended = 1
    /\ (hpc = "finished" /\ url = "ok" /\ failures = <<>>) =>
         /\ TypedEvents = <<"console", "network", "head", "body", "complete">>
         /\ events[Len(events)] = "complete"

\* A stream that finished with nothing failed and the response ended.
C17_Witness ==
  /\ handler = "analyzeUrlStream"
  /\ hpc = "finished"
  /\ url = "ok"
  /\ failures = <<>>
  /\ Sent("complete")
  /\ ended = 1

\* The request fails validation whatever the network does.
InvalidRequest ==
  url \in {"missing", "malformed"} \/ (handler = "scanWebsite" /\ url = "unreachable")

\* C24: a request that fails validation (no url, a malformed url, for
\* scanWebsite a url that checkUrlAccessible reports as not ok) launches no
\* browser and is answered once: with status 400, on the stream with the
\* single event error followed by the end of the response; and
\* checkUrlAccessible does not throw.
C24_InvalidRequestsRejectedOnce ==
  /\ "checkUrlAccessible" \notin {failures[i] : i \in 1..Len(failures)}
  /\ (handler \in HttpHandlers /\ hpc = "finished"
       /\ (InvalidRequest \/ status = 400)) =>
       /\ ~launched /\ closeCalls = 0 /\ browser = NoBrowser
       /\ ended = 1
       /\ failures = <<>>
       /\ IF handler = "analyzeUrlStream"
          THEN events = <<"error">>
          ELSE status = 400 /\ events = <<>>

\* scanWebsite has answered a request whose url is well-formed but whose
\* HEAD request was not answered with a 2xx status.
C24_Witness ==
  /\ handler = "scanWebsite" /\ hpc = "finished"
  /\ url = "ok" /\ status = 400 /\ ended = 1 /\ ~launched

\* C26: a stream of analyzeUrlStream never holds both a complete event and
\* an error event, whatever step failed.
C26_CompleteAndErrorExclusive ==
  handler = "analyzeUrlStream" => ~(Sent("complete") /\ Sent("error"))

\* C18: the call of takeScrollScreenshots by the test script resolves to a
\* non-empty array of at most maxScrollAttempts + 1 entries whose scroll
\* positions start at 0 and go up by the scrollStep of 500, followed by a
\* last entry at the page height.
C18_ScrollScreenshotsResolve ==
  (handler = "takeScrollScreenshots" /\ hpc = "finished") =>
    /\ settled.state = "resolved"
    /\ LET shots == settled.screenshots
       IN  /\ Len(shots) >= 1
           /\ Len(shots) <= maxScrollAttempts + 1
           /\ \A i \in 1..(Len(shots) - 1) : shots[i].scrollPosition = (i - 1) * 500
           /\ Len(shots) > 1 =>
                shots[Len(shots)].scrollPosition > shots[Len(shots) - 1].scrollPosition

====
